---- MODULE Spec2Model ----
(***************************************************************************)
(* Deeting MCP tool supervisor: the tool catalog (mcp_sources, mcp_tools), *)
(* the manifest reconciler and the process supervisor, modelled from the   *)
(* desktop backend (axum) and the Tauri host, which share most of the code.*)
(***************************************************************************)
EXTENDS Integers, Sequences, FiniteSets, TLC

VARIABLES
    variant,     \* which build runs: "backend" (desktop/backend) or "tauri" (src-tauri)
    sources,     \* table mcp_sources: source id -> row, or NoSource
    tools,       \* table mcp_tools: row id -> row, or NoRow
    cat,         \* catalog request tasks (sync, import, apply-pending, resolve, cloud sync)
    processes,   \* ProcessManager.processes: tool id -> child id, 0 when absent
    procLock,    \* writer of the processes RwLock: a task, or "free"
    children,    \* spawned children: child id -> [tool, state, code]
    childLock,   \* owner of each child's Arc<Mutex<Child>>: a task, or "free"
    sup,         \* supervisor request tasks (start_tool / stop_tool callers)
    mon,         \* exit-monitor task of each child
    logs,        \* ProcessManager.logs: tool id -> ring of entries
    broadcasters,\* ProcessManager.broadcasters: tool id -> a channel exists
    channel,     \* entries each tool's broadcast channel accepted, in send order
    receivers,   \* broadcast::Receiver of each log-stream client
    emitters,    \* tasks inside emit_log (stdout/stderr readers, event emitters)
    emitted,     \* entries the log service's emitters pushed into each tool's
                 \* current ring, in push order
    hashTest,    \* a run of the config hash on two JSON texts: the build's
                 \* serde_json map, the parsed values, the digests
    bridge       \* McpBridgeState of the Tauri host: the streams map, the
                 \* log-stream tasks spawned so far, the last command

logVars == <<broadcasters, channel, receivers, emitters, emitted>>

\* state of the parts exercised on their own: the hash functions and the
\* log-stream bridge
pureVars == <<hashTest, bridge>>

vars == <<variant, sources, tools, cat, processes, procLock, children, childLock,
          sup, mon, logs, logVars, pureVars>>

supVars == <<processes, procLock, children, childLock, sup, mon, logs>>

-----------------------------------------------------------------------------
(* Bounds of the model *)

MaxRows == 3          \* rows the mcp_tools table can hold (uuid ids are 1..MaxRows)
MaxChildren == 2      \* children spawned in one run
MaxSeqCalls == 3      \* requests the sequential client issues
MaxConcCalls == 3     \* requests the two concurrent clients issue in all
MaxCalls == 2         \* start/stop requests issued by one client task
MaxEmits == 3         \* entries handed to emit_log in one run of the log service
MaxLines == 2         \* lines the child writes on each of stdout and stderr
MaxMixCalls == 1      \* imports issued while the supervisor runs the imported tool
MaxSrcCalls == 4      \* ensure_*_source calls in one run of the sources table
MaxBridgeCalls == 4   \* start/stop_mcp_log_stream commands in one run of the bridge
BroadcastCapacity == 2 \* capacity of a broadcast channel in the modelled manager
LogBufferSize == 2    \* ProcessManager.log_buffer_size of the modelled manager

(* Program constants *)

KilledExitCode == -1  \* status.code().unwrap_or(-1): a child ended by a signal

RowIds == 1..MaxRows
ChildIds == 1..MaxChildren
SupTasks == {"u1", "u2"}
MonTask == "monitor"

None == <<>>
Some(x) == <<x>>
IsSome(o) == Len(o) = 1
Unwrap(o) == o[1]

NoRow == [absent |-> TRUE]
NoSource == [absent |-> TRUE]

-----------------------------------------------------------------------------
(* McpStore: writes to mcp_tools *)

\* UPDATE mcp_tools SET status = ?, ping_ms = ?, error = ? WHERE id = ?
\* (no row with that id: the UPDATE changes nothing and still succeeds)
set_tool_status(tbl, id, status, ping_ms, error) ==
    IF id \in DOMAIN tbl /\ tbl[id] # NoRow
    THEN [tbl EXCEPT ![id] = [@ EXCEPT !.status = status,
                                       !.ping_ms = ping_ms,
                                       !.error = error]]
    ELSE tbl

-----------------------------------------------------------------------------
(* JSON values, serde_json and the config hash *)

\* A config value is a JSON object: a function from its keys to scalars.
\* serde_json::to_string writes the members in key order.
JsonKeys == <<"command", "identifier", "name">>

RECURSIVE SerializeFrom(_, _)
SerializeFrom(value, i) ==
    IF i > Len(JsonKeys) THEN <<>>
    ELSE IF JsonKeys[i] \in DOMAIN value
         THEN <<<<JsonKeys[i], value[JsonKeys[i]]>>>> \o SerializeFrom(value, i + 1)
         ELSE SerializeFrom(value, i + 1)

\* serde_json::to_string(&value)
to_string(value) == SerializeFrom(value, 1)

\* serde_json::from_str::<Value>(text)
from_str(text) ==
    [k \in {text[i][1] : i \in 1..Len(text)} |->
        (CHOOSE p \in {text[i] : i \in 1..Len(text)} : p[1] = k)[2]]

\* A serde_json::Value as the map holds it: [obj |-> members in the map's
\* iteration order, each <<key, value>>], [arr |-> elements] or [num |-> n].
\* String order of the keys in use.
KeyRank == [a |-> 1, b |-> 2, command |-> 3, identifier |-> 4, name |-> 5,
            x |-> 6, y |-> 7]

\* members with the one of the given key removed / the smallest key
MinKey(members) ==
    CHOOSE k \in {members[i][1] : i \in 1..Len(members)} :
        \A j \in 1..Len(members) : KeyRank[k] <= KeyRank[members[j][1]]

MemberOf(members, key) ==
    members[CHOOSE i \in 1..Len(members) : members[i][1] = key]

RECURSIVE WithoutKey(_, _)
WithoutKey(members, key) ==
    IF members = <<>> THEN <<>>
    ELSE IF Head(members)[1] = key THEN WithoutKey(Tail(members), key)
    ELSE <<Head(members)>> \o WithoutKey(Tail(members), key)

\* keys.sort(), then the members taken in that order
RECURSIVE SortMembers(_)
SortMembers(members) ==
    IF members = <<>> THEN <<>>
    ELSE <<MemberOf(members, MinKey(members))>>
             \o SortMembers(WithoutKey(members, MinKey(members)))

\* hash.rs canonicalize_json: an object's members re-inserted in sorted key
\* order with canonical values, an array's elements made canonical in place
RECURSIVE canonicalize_json(_)
canonicalize_json(value) ==
    IF "obj" \in DOMAIN value
    THEN LET sorted == SortMembers(value.obj)
         IN [obj |-> [i \in 1..Len(sorted) |->
                         <<sorted[i][1], canonicalize_json(sorted[i][2])>>]]
    ELSE IF "arr" \in DOMAIN value
    THEN [arr |-> [i \in 1..Len(value.arr) |-> canonicalize_json(value.arr[i])]]
    ELSE value

\* the Tauri store hashes the value as it is
CanonicalizeNot(value) == value

\* serde_json::to_string of a Value: the text, token by token, members and
\* elements in the order the value holds them
RECURSIVE WriteValue(_)
WriteMembers(members, i) ==
    <<<<"key", members[i][1]>>>> \o WriteValue(members[i][2])
RECURSIVE WriteAll(_, _, _)
WriteAll(seq, i, isObject) ==
    IF i > Len(seq) THEN <<>>
    ELSE (IF isObject THEN WriteMembers(seq, i) ELSE WriteValue(seq[i]))
             \o WriteAll(seq, i + 1, isObject)
WriteValue(value) ==
    IF "obj" \in DOMAIN value
    THEN <<<<"{", "">>>> \o WriteAll(value.obj, 1, TRUE) \o <<<<"}", "">>>>
    ELSE IF "arr" \in DOMAIN value
    THEN <<<<"[", "">>>> \o WriteAll(value.arr, 1, FALSE) \o <<<<"]", "">>>>
    ELSE IF "str" \in DOMAIN value THEN <<<<"str", value.str>>>>
    ELSE <<<<"num", value.num>>>>

\* hash.rs hash_json / store.rs hash_json on a Value: SHA-256 (taken as
\* injective) of the serialized text; the backend canonicalizes first, the
\* Tauri store does not
hash_value(v, value) ==
    IF v = "backend"
    THEN [sha256 |-> WriteValue(canonicalize_json(value))]
    ELSE [sha256 |-> WriteValue(CanonicalizeNot(value))]

\* serde_json::from_str::<Value> of a text (given as the tree in the order
\* written): serde_json::Map is a BTreeMap, sorted by key, unless the build
\* enables serde_json's preserve_order feature, which keeps insertion order
RECURSIVE parse_value(_, _)
parse_value(text, preserve_order) ==
    IF "obj" \in DOMAIN text
    THEN LET inner == [i \in 1..Len(text.obj) |->
                          <<text.obj[i][1], parse_value(text.obj[i][2], preserve_order)>>]
         IN [obj |-> IF preserve_order THEN inner ELSE SortMembers(inner)]
    ELSE IF "arr" \in DOMAIN text
    THEN [arr |-> [i \in 1..Len(text.arr) |-> parse_value(text.arr[i], preserve_order)]]
    ELSE text

\* JSON texts the hash is run on: {"a": A, "b": 1} with A a number, an object
\* or an array holding an object, the members written in either order
Num(n) == [num |-> n]
Obj2(k1, v1, k2, v2) == {[obj |-> <<<<k1, v1>>, <<k2, v2>>>>], [obj |-> <<<<k2, v2>>, <<k1, v1>>>>]}
InnerTexts ==
    {Num("2")} \union Obj2("x", Num("2"), "y", Num("3"))
        \union {[arr |-> <<o, Num("1")>>] : o \in Obj2("x", Num("2"), "y", Num("3"))}
        \union {[arr |-> <<Num("1"), Num("2")>>], [arr |-> <<Num("2"), Num("1")>>]}
JsonTexts == UNION {Obj2("a", inner, "b", Num("1")) : inner \in InnerTexts}

IdleHash == [pc |-> "idle", preserve_order |-> FALSE,
             x_text |-> Num("0"), y_text |-> Num("0"),
             x |-> Num("0"), y |-> Num("0"), hashes |-> <<>>]

\* parse two texts into Values
HashParse(x_text, y_text) ==
    /\ hashTest.pc = "idle"
    /\ hashTest' = [hashTest EXCEPT
           !.pc = "parsed", !.x_text = x_text, !.y_text = y_text,
           !.x = parse_value(x_text, hashTest.preserve_order),
           !.y = parse_value(y_text, hashTest.preserve_order)]
    /\ UNCHANGED <<bridge, logVars, variant, sources, tools, cat, supVars>>

\* compute_config_hash of both values with the running build's hash
HashCompute ==
    /\ hashTest.pc = "parsed"
    /\ hashTest' = [hashTest EXCEPT
           !.pc = "hashed",
           !.hashes = <<hash_value(variant, hashTest.x), hash_value(variant, hashTest.y)>>]
    /\ UNCHANGED <<bridge, logVars, variant, sources, tools, cat, supVars>>

\* the next pair of texts
HashAgain ==
    /\ hashTest.pc = "hashed"
    /\ hashTest' = [IdleHash EXCEPT !.preserve_order = hashTest.preserve_order]
    /\ UNCHANGED <<bridge, logVars, variant, sources, tools, cat, supVars>>

HashNext ==
    \/ \E x_text, y_text \in JsonTexts : HashParse(x_text, y_text)
    \/ HashCompute
    \/ HashAgain

\* a config object of the catalog as a Value: flat, string members
AsValue(value) ==
    LET text == to_string(value)
    IN [obj |-> [i \in 1..Len(text) |-> <<text[i][1], [str |-> text[i][2]]>>]]

\* hash_json on a config object
hash_json(v, value) == hash_value(v, AsValue(value))

\* McpStore::compute_config_hash
compute_config_hash(v, value) == hash_json(v, value)

\* McpStore::build_config_json: name, then the payload's members
build_config_json(name, payload) ==
    IF IsSome(payload.command)
    THEN [k \in {"name", "command"} |->
             IF k = "name" THEN name ELSE Unwrap(payload.command)]
    ELSE [k \in {"name"} |-> name]

\* commands.rs build_cloud_config_json
build_cloud_config_json(tool) ==
    [k \in {"identifier", "name", "command"} |->
        IF k = "identifier" THEN tool.identifier
        ELSE IF k = "name" THEN tool.name ELSE tool.command]

\* serde_json::from_value::<McpToolConfigPayload>: the typed members
payload_from_value(value) ==
    [command |-> IF "command" \in DOMAIN value THEN Some(value["command"]) ELSE None]

\* McpStore::extract_tool_fields
extract_tool_fields(name, payload) == [name |-> name, command |-> payload.command]

-----------------------------------------------------------------------------
(* McpStore: mcp_tools queries *)

Rows(tbl) == {id \in DOMAIN tbl : tbl[id] # NoRow}

\* SELECT ... LIMIT 1 without ORDER BY: the row SQLite meets first
FirstOf(ids) == IF ids = {} THEN 0 ELSE CHOOSE id \in ids : \A o \in ids : id <= o

\* get_tool_by_source_name
get_tool_by_source_name(tbl, source_id, name) ==
    FirstOf({id \in Rows(tbl) : tbl[id].source_id = source_id /\ tbl[id].name = name})

\* get_tool_by_source_identifier
get_tool_by_source_identifier(tbl, source_id, identifier) ==
    FirstOf({id \in Rows(tbl) : /\ tbl[id].source_id = source_id
                                /\ tbl[id].identifier = Some(identifier)})

\* has_name_conflict: COUNT(*) WHERE name = ? AND source_id != ? AND source_type = 'local'
HasNameConflictAnyType(tbl, name, source_id) ==
    \E id \in Rows(tbl) : tbl[id].name = name /\ tbl[id].source_id # source_id
has_name_conflict(tbl, name, source_id) ==
    \E id \in Rows(tbl) : /\ tbl[id].name = name
                          /\ tbl[id].source_id # source_id
                          /\ tbl[id].source_type = "local"

\* backend find_tool_id_by_source_name
find_tool_id_by_source_name(tbl, source_id, name) ==
    get_tool_by_source_name(tbl, source_id, name)

\* Tauri find_tool_id_by_source_identifier: by identifier, or the first row
\* of the source WHERE identifier IS NULL
find_tool_id_by_source_identifier(tbl, source_id, identifier) ==
    IF IsSome(identifier)
    THEN get_tool_by_source_identifier(tbl, source_id, Unwrap(identifier))
    ELSE FirstOf({id \in Rows(tbl) : /\ tbl[id].source_id = source_id
                                     /\ tbl[id].identifier = None})

\* upsert_tool, first query: the row the record is taken to be
UpsertFindNothing(v, tbl, rec) == 0
UpsertFind(v, tbl, rec) ==
    IF v = "backend"
    THEN find_tool_id_by_source_name(tbl, rec.source_id, rec.name)
    ELSE find_tool_id_by_source_identifier(tbl, rec.source_id, rec.identifier)

\* the columns a ToolUpsert binds (the backend table has no identifier column)
RowOf(v, rec) ==
    [source_id |-> rec.source_id,
     identifier |-> IF v = "backend" THEN None ELSE rec.identifier,
     name |-> rec.name,
     source_type |-> rec.source_type,
     status |-> rec.status,
     ping_ms |-> rec.ping_ms,
     error |-> rec.error,
     command |-> rec.command,
     config_json |-> rec.config_json,
     config_hash |-> rec.config_hash,
     pending_config_json |-> rec.pending_config_json,
     pending_config_hash |-> rec.pending_config_hash,
     conflict_status |-> rec.conflict_status,
     is_read_only |-> rec.is_read_only]

UniqueOkUnindexed(v, tbl, id, row) ==
    TRUE

\* idx_mcp_tools_source_name, and in the Tauri schema
\* idx_mcp_tools_source_identifier (NULL identifiers never collide)
UniqueOk(v, tbl, id, row) ==
    \A o \in Rows(tbl) \ {id} :
        /\ ~(tbl[o].source_id = row.source_id /\ tbl[o].name = row.name)
        /\ v = "tauri" =>
             ~(/\ tbl[o].source_id = row.source_id
               /\ IsSome(row.identifier)
               /\ tbl[o].identifier = row.identifier)

\* Uuid::new_v4(): an id no row has
FreshId(tbl) == FirstOf({id \in DOMAIN tbl : tbl[id] = NoRow})

\* update_tool: UPDATE mcp_tools SET <every column> WHERE id = ?
\* result: the table and whether the statement succeeded
UpdateToolUnchecked(v, tbl, id, rec) ==
    [ok |-> TRUE, tbl |-> [tbl EXCEPT ![id] = RowOf(v, rec)]]
update_tool(v, tbl, id, rec) ==
    IF UniqueOk(v, tbl, id, RowOf(v, rec))
    THEN [ok |-> TRUE, tbl |-> [tbl EXCEPT ![id] = RowOf(v, rec)]]
    ELSE [ok |-> FALSE, tbl |-> tbl]

\* insert_tool: INSERT INTO mcp_tools, id = tool.id or a fresh uuid
insert_tool(v, tbl, rec) ==
    LET id == IF IsSome(rec.id) THEN Unwrap(rec.id) ELSE FreshId(tbl) IN
    IF id \in DOMAIN tbl /\ tbl[id] = NoRow /\ UniqueOk(v, tbl, id, RowOf(v, rec))
    THEN [ok |-> TRUE, tbl |-> [tbl EXCEPT ![id] = RowOf(v, rec)]]
    ELSE [ok |-> FALSE, tbl |-> tbl]

\* upsert_tool, second statement: update the row found, or insert
UpsertWrite(v, tbl, found, rec) ==
    IF found # 0 THEN update_tool(v, tbl, found, rec) ELSE insert_tool(v, tbl, rec)

\* mark_tool_pending_update
mark_tool_pending_update(tbl, id, pending_json, pending_hash, conflict_status) ==
    IF id \in DOMAIN tbl /\ tbl[id] # NoRow
    THEN [tbl EXCEPT ![id] = [@ EXCEPT !.pending_config_json = Some(pending_json),
                                       !.pending_config_hash = Some(pending_hash),
                                       !.conflict_status = conflict_status]]
    ELSE tbl

ClearPendingJsonOnly(tbl, id) ==
    IF id \in DOMAIN tbl /\ tbl[id] # NoRow
    THEN [tbl EXCEPT ![id] = [@ EXCEPT !.pending_config_json = None,
                                       !.conflict_status = "none"]]
    ELSE tbl

\* Tauri clear_pending_update
clear_pending_update(tbl, id) ==
    IF id \in DOMAIN tbl /\ tbl[id] # NoRow
    THEN [tbl EXCEPT ![id] = [@ EXCEPT !.pending_config_json = None,
                                       !.pending_config_hash = None,
                                       !.conflict_status = "none"]]
    ELSE tbl

-----------------------------------------------------------------------------
(* McpStore: mcp_sources *)

SourceIds == {"s_local", "s_cloud", "s_extra"}
Names == {"alpha", "beta"}
Commands == {"echo", "echo2"}
Identifiers == {"i1", "i2"}
CatTasks == {"a", "b"}

\* manifest entries: McpToolConfigPayload values
Payloads == {[command |-> Some(c)] : c \in Commands}

\* manifests: { "mcpServers": { name: entry, ... } }
Manifests ==
    {[n \in {"alpha"} |-> payload] : payload \in Payloads}
    \union {[n \in Names |-> [command |-> Some("echo")]]}

\* the cloud catalog's name of each tool identifier
CloudName(i) == IF i = "i1" THEN "alpha" ELSE "beta"

\* subscription lists: identifier -> install_manifest.command
Subscriptions ==
    {[i \in {} |-> "echo"]}
    \union {[i \in {"i1"} |-> c] : c \in Commands}
    \union {[i \in Identifiers |-> "echo"]}

\* ensure_local_source / ensure_cloud_source / insert_source: the new row
SourceRow(source_type, is_read_only) ==
    [source_type |-> source_type, is_read_only |-> is_read_only,
     status |-> "active", last_synced_at |-> None]

\* find_source_by_type
find_source_by_type(tbl, source_type) ==
    LET ids == {id \in DOMAIN tbl : tbl[id] # NoSource /\ tbl[id].source_type = source_type}
    IN IF ids = {} THEN "" ELSE CHOOSE id \in ids : TRUE

\* update_source_status: SET status = ?, last_synced_at = ?
update_source_status(tbl, id, status, last_synced_at) ==
    IF id \in DOMAIN tbl /\ tbl[id] # NoSource
    THEN [tbl EXCEPT ![id] = [@ EXCEPT !.status = status,
                                       !.last_synced_at = last_synced_at]]
    ELSE tbl

-----------------------------------------------------------------------------
(* Manifest reconciler: routes.rs / commands.rs *)

IdleCat == [pc |-> "idle", op |-> "none", source |-> "", src_type |-> "",
            src_ro |-> FALSE, todo |-> {}, seen |-> {}, sweep |-> {},
            name |-> "", identifier |-> None, command |-> None,
            config_json |-> <<>>, config_hash |-> [sha256 |-> <<>>],
            name_conflict |-> FALSE, existing |-> 0, ex |-> NoRow, found |-> 0,
            tool |-> 0, rec |-> NoRow, last |-> NoRow, result |-> "none",
            calls |-> 0]

\* a request arrives at the task / the request returns: the task keeps its
\* result and what the request was (operation, source, tool, the names or
\* identifiers it went through)
Begin(c) == [IdleCat EXCEPT !.calls = c.calls + 1, !.last = c.last]
Return(c, result) ==
    [IdleCat EXCEPT !.result = result, !.calls = c.calls, !.last = c.last,
                    !.op = c.op, !.source = c.source, !.tool = c.tool,
                    !.seen = c.seen]

\* apply_config_payload: is_read_only of the source
SourceReadOnlyFlagOnly(source_type, flag) == flag
SourceReadOnly(source_type, flag) == source_type # "local" \/ flag

\* conflict_status written by mark_tool_pending_update
PendingConflictStatusNone(name_conflict) == "none"
PendingConflictStatus(name_conflict) ==
    IF name_conflict THEN "conflict" ELSE "update_available"

\* conflict_status written by an insert or an in-place update
UpsertConflictStatus(name_conflict) ==
    IF name_conflict THEN "conflict" ELSE "none"

\* the ToolUpsert apply_config_payload builds for the current entry
AcpRecord(c) ==
    IF c.existing # 0
    THEN [id |-> Some(c.existing), source_id |-> c.source,
          identifier |-> c.ex.identifier, name |-> c.name,
          source_type |-> c.src_type, status |-> c.ex.status,
          ping_ms |-> c.ex.ping_ms, error |-> c.ex.error, command |-> c.command,
          config_json |-> c.config_json, config_hash |-> c.config_hash,
          pending_config_json |-> None, pending_config_hash |-> None,
          conflict_status |-> UpsertConflictStatus(c.name_conflict),
          is_read_only |-> SourceReadOnly(c.src_type, c.src_ro)]
    ELSE [id |-> None, source_id |-> c.source,
          identifier |-> None, name |-> c.name,
          source_type |-> c.src_type, status |-> "stopped",
          ping_ms |-> None, error |-> None, command |-> c.command,
          config_json |-> c.config_json, config_hash |-> c.config_hash,
          pending_config_json |-> None, pending_config_hash |-> None,
          conflict_status |-> UpsertConflictStatus(c.name_conflict),
          is_read_only |-> SourceReadOnly(c.src_type, c.src_ro)]

\* the ToolUpsert sync_cloud_subscriptions builds for a new subscription
CloudRecord(c) ==
    [id |-> None, source_id |-> c.source,
     identifier |-> c.identifier, name |-> c.name,
     source_type |-> "cloud", status |-> "pending",
     ping_ms |-> None, error |-> None, command |-> c.command,
     config_json |-> c.config_json, config_hash |-> c.config_hash,
     pending_config_json |-> None, pending_config_hash |-> None,
     conflict_status |-> UpsertConflictStatus(c.name_conflict),
     is_read_only |-> TRUE]

\* the ToolUpsert apply_pending_update builds from the tool it read and the
\* pending JSON it read (held in config_json, its hash in config_hash)
PendingHashStale(v, c) == c.ex.config_hash
PendingHash(v, c) == compute_config_hash(v, from_str(c.config_json))

ApplyRecord(v, c) ==
    LET fields == extract_tool_fields(c.ex.name,
                                      payload_from_value(from_str(c.config_json)))
    IN [id |-> Some(c.tool), source_id |-> c.ex.source_id,
        identifier |-> c.ex.identifier, name |-> fields.name,
        source_type |-> c.ex.source_type, status |-> c.ex.status,
        ping_ms |-> c.ex.ping_ms, error |-> c.ex.error, command |-> fields.command,
        config_json |-> c.config_json, config_hash |-> PendingHash(v, c),
        pending_config_json |-> None, pending_config_hash |-> None,
        conflict_status |-> "none",
        is_read_only |-> c.ex.is_read_only]

\* apply_pending_update as one call: get_tool, get_pending_config_json,
\* upsert_tool; the table it leaves and its result
apply_pending_update(v, tbl, tool_id) ==
    IF tool_id \notin DOMAIN tbl \/ tbl[tool_id] = NoRow
    THEN [tbl |-> tbl, result |-> "not_found"]
    ELSE IF ~IsSome(tbl[tool_id].pending_config_json)
    THEN [tbl |-> tbl, result |-> "no_pending"]
    ELSE LET c == [tool |-> tool_id, ex |-> tbl[tool_id],
                   config_json |-> Unwrap(tbl[tool_id].pending_config_json)]
             rec == ApplyRecord(v, c)
             r == UpsertWrite(v, tbl, UpsertFind(v, tbl, rec), rec)
         IN [tbl |-> r.tbl, result |-> IF r.ok THEN "ok" ELSE "error"]

\* the record of the upsert the task is in
TaskRecord(v, c) ==
    IF c.op = "upsert" THEN c.rec
    ELSE IF c.op \in {"apply", "resolve"} THEN ApplyRecord(v, c)
    ELSE IF c.op = "cloud" THEN CloudRecord(c)
    ELSE AcpRecord(c)

\* create_source / create_mcp_source: insert_source with status active
CreateSource(id, source_type, is_read_only) ==
    /\ sources[id] = NoSource
    /\ sources' = [sources EXCEPT ![id] = SourceRow(source_type, is_read_only)]
    /\ UNCHANGED <<pureVars, logVars, variant, tools, cat, supVars>>

\* McpSourceType, and Uuid::new_v4() for a new source
SourceTypes == {"local", "cloud", "modelscope", "github", "url"}
FreshSourceId(tbl) ==
    LET free == {id \in DOMAIN tbl : tbl[id] = NoSource}
    IN IF free = {} THEN "" ELSE CHOOSE id \in free : TRUE

\* the sources of a type
SourcesOfType(tbl, source_type) ==
    {id \in DOMAIN tbl : tbl[id] # NoSource /\ tbl[id].source_type = source_type}

\* startup has provisioned the local source and, in the Tauri host, the cloud
\* source; requests are served from then on
StartupDone ==
    /\ SourcesOfType(sources, "local") # {}
    /\ variant = "tauri" => SourcesOfType(sources, "cloud") # {}

\* ensure_local_source / ensure_cloud_source is called
CallEnsure(k, source_type) ==
    /\ cat[k].pc = "idle"
    /\ source_type \in {"local", "cloud"}
    /\ source_type = "cloud" => variant = "tauri"
    /\ cat' = [cat EXCEPT ![k] =
          [Begin(cat[k]) EXCEPT !.pc = "ens_find", !.op = "ensure",
                               !.src_type = source_type]]
    /\ UNCHANGED <<pureVars, logVars, variant, sources, tools, supVars>>

\* ensure_*_source: find_source_by_type; the source found is returned
EnsureFind(k) ==
    /\ cat[k].pc = "ens_find"
    /\ LET id == find_source_by_type(sources, cat[k].src_type) IN
       cat' = [cat EXCEPT ![k] =
          IF id # "" THEN Return([cat[k] EXCEPT !.source = id], "ok")
          ELSE [cat[k] EXCEPT !.pc = "ens_insert"]]
    /\ UNCHANGED <<pureVars, logVars, variant, sources, tools, supVars>>

\* ensure_*_source: INSERT INTO mcp_sources under a new id, then get_source
EnsureInsert(k) ==
    /\ cat[k].pc = "ens_insert"
    /\ LET id == FreshSourceId(sources) IN
       /\ id # ""
       /\ sources' = [sources EXCEPT ![id] =
                         SourceRow(cat[k].src_type, cat[k].src_type = "cloud")]
       /\ cat' = [cat EXCEPT ![k] = Return([cat[k] EXCEPT !.source = id], "ok")]
    /\ UNCHANGED <<pureVars, logVars, variant, tools, supVars>>

\* import_config / import_mcp_config: get_source (or ensure_local_source),
\* then apply_config_payload
CallImport(k, src, manifest) ==
    /\ cat[k].pc = "idle"
    /\ sources[src] # NoSource
    /\ cat' = [cat EXCEPT ![k] =
          [Begin(cat[k]) EXCEPT !.pc = "acp_next", !.op = "import", !.source = src,
                          !.src_type = sources[src].source_type,
                          !.src_ro = sources[src].is_read_only,
                          !.todo = {[name |-> n, payload |-> manifest[n]] :
                                        n \in DOMAIN manifest}]]
    /\ UNCHANGED <<pureVars, logVars, variant, sources, tools, supVars>>

\* sync_source / sync_mcp_source: get_source
CallSync(k, src) ==
    /\ cat[k].pc = "idle"
    /\ sources[src] # NoSource
    /\ cat' = [cat EXCEPT ![k] =
          [Begin(cat[k]) EXCEPT !.pc = "sync_set", !.op = "sync", !.source = src,
                          !.src_type = sources[src].source_type,
                          !.src_ro = sources[src].is_read_only]]
    /\ UNCHANGED <<pureVars, logVars, variant, sources, tools, supVars>>

\* sync_source: update_source_status(Syncing, None)
SyncSetSyncing(k) ==
    /\ cat[k].pc = "sync_set"
    /\ sources' = update_source_status(sources, cat[k].source, "syncing", None)
    /\ cat' = [cat EXCEPT ![k].pc = "sync_fetch"]
    /\ UNCHANGED <<pureVars, logVars, variant, tools, supVars>>

\* sync_source_inner: the file or the HTTP response yields a manifest
SyncFetch(k, manifest) ==
    /\ cat[k].pc = "sync_fetch"
    /\ cat' = [cat EXCEPT ![k].pc = "acp_next",
                          ![k].todo = {[name |-> n, payload |-> manifest[n]] :
                                           n \in DOMAIN manifest}]
    /\ UNCHANGED <<pureVars, logVars, variant, sources, tools, supVars>>

\* sync_source_inner: unreadable file, HTTP failure or non-2xx status
SyncFetchFail(k) ==
    /\ cat[k].pc = "sync_fetch"
    /\ cat' = [cat EXCEPT ![k].pc = "sync_fail"]
    /\ UNCHANGED <<pureVars, logVars, variant, sources, tools, supVars>>

\* sync_source: the status written for the result of sync_source_inner
SyncOutcomeAlwaysActive(ok) == "active"
SyncOutcomeStatus(ok) == IF ok THEN "active" ELSE "error"

\* sync_source, Ok arm: update_source_status(Active, Some(now))
SyncDone(k) ==
    /\ cat[k].pc = "sync_ok"
    /\ sources' = update_source_status(sources, cat[k].source, SyncOutcomeStatus(TRUE),
                                        Some("now"))
    /\ cat' = [cat EXCEPT ![k] = Return(cat[k], "ok")]
    /\ UNCHANGED <<pureVars, logVars, variant, tools, supVars>>

\* sync_source, Err arm: update_source_status(Error, None)
SyncFail(k) ==
    /\ cat[k].pc = "sync_fail"
    /\ sources' = update_source_status(sources, cat[k].source, SyncOutcomeStatus(FALSE),
                                        None)
    /\ cat' = [cat EXCEPT ![k] = Return(cat[k], "error")]
    /\ UNCHANGED <<pureVars, logVars, variant, tools, supVars>>

\* where a request goes when apply_config_payload returns
AfterPayloadIgnoresFailure(c, ok) ==
    IF c.op = "sync" THEN [c EXCEPT !.pc = "sync_ok"] ELSE Return(c, "ok")
AfterPayload(c, ok) ==
    IF c.op = "sync"
    THEN [c EXCEPT !.pc = IF ok THEN "sync_ok" ELSE "sync_fail"]
    ELSE Return(c, IF ok THEN "ok" ELSE "error")

\* apply_config_payload inside a sync: a store call for the next entry
\* returns an error (`?`), and with it apply_config_payload
SyncReconcileFail(k) ==
    /\ cat[k].pc = "acp_next"
    /\ cat[k].op = "sync"
    /\ cat[k].todo # {}
    /\ cat' = [cat EXCEPT ![k] = AfterPayload(cat[k], FALSE)]
    /\ UNCHANGED <<pureVars, logVars, variant, sources, tools, supVars>>

\* apply_config_payload: all entries done
AcpFinish(k) ==
    /\ cat[k].pc = "acp_next"
    /\ cat[k].todo = {}
    /\ cat' = [cat EXCEPT ![k] = AfterPayload(cat[k], TRUE)]
    /\ UNCHANGED <<pureVars, logVars, variant, sources, tools, supVars>>

\* apply_config_payload: next entry of the HashMap (any order): build the
\* config, hash it, query has_name_conflict
AcpEntry(k, e) ==
    /\ cat[k].pc = "acp_next"
    /\ e \in cat[k].todo
    /\ LET value == build_config_json(e.name, e.payload) IN
       cat' = [cat EXCEPT ![k] =
          [@ EXCEPT !.pc = "acp_existing", !.todo = @ \ {e},
                    !.seen = @ \union {e.name},
                    !.name = e.name,
                    !.command = extract_tool_fields(e.name, e.payload).command,
                    !.config_json = to_string(value),
                    !.config_hash = compute_config_hash(variant, value),
                    !.name_conflict = has_name_conflict(tools, e.name, cat[k].source),
                    !.existing = 0, !.ex = NoRow, !.found = 0]]
    /\ UNCHANGED <<pureVars, logVars, variant, sources, tools, supVars>>

HashNeverUnchanged(existing_hash, config_hash) ==
    FALSE

\* `existing_tool.config_hash == config_hash`: the entry brings nothing new
HashUnchanged(existing_hash, config_hash) ==
    existing_hash = config_hash

\* apply_config_payload: get_tool_by_source_name, then classify
AcpExisting(k) ==
    /\ cat[k].pc = "acp_existing"
    /\ LET id == get_tool_by_source_name(tools, cat[k].source, cat[k].name) IN
       cat' = [cat EXCEPT ![k] =
          [@ EXCEPT !.existing = id,
                    !.ex = IF id = 0 THEN NoRow ELSE tools[id],
                    !.pc = IF id = 0 THEN "acp_find"
                           ELSE IF HashUnchanged(tools[id].config_hash, cat[k].config_hash)
                           THEN "acp_next"
                           ELSE IF SourceReadOnly(cat[k].src_type, cat[k].src_ro)
                           THEN "acp_mark"
                           ELSE "acp_find"]]
    /\ UNCHANGED <<pureVars, logVars, variant, sources, tools, supVars>>

\* apply_config_payload, read-only source: mark_tool_pending_update
AcpMark(k) ==
    /\ cat[k].pc = "acp_mark"
    /\ tools' = mark_tool_pending_update(tools, cat[k].existing, cat[k].config_json,
                    cat[k].config_hash, PendingConflictStatus(cat[k].name_conflict))
    /\ cat' = [cat EXCEPT ![k].pc = "acp_next"]
    /\ UNCHANGED <<pureVars, logVars, variant, sources, supVars>>

\* upsert_tool: the query for the existing row
UpsertFindStep(k) ==
    /\ cat[k].pc \in {"acp_find", "ap_find", "cs_find", "up_find"}
    /\ cat' = [cat EXCEPT ![k].found = UpsertFind(variant, tools, TaskRecord(variant, cat[k])),
                          ![k].pc = CASE cat[k].pc = "acp_find" -> "acp_write"
                                      [] cat[k].pc = "ap_find" -> "ap_write"
                                      [] cat[k].pc = "up_find" -> "up_write"
                                      [] OTHER -> "cs_write"]
    /\ UNCHANGED <<pureVars, logVars, variant, sources, tools, supVars>>

\* upsert_tool: UPDATE the row found or INSERT; a failed statement fails
\* the request
UpsertWriteStep(k) ==
    /\ cat[k].pc \in {"acp_write", "ap_write", "cs_write", "up_write"}
    /\ LET rec == TaskRecord(variant, cat[k])
           r == UpsertWrite(variant, tools, cat[k].found, rec) IN
       /\ cat[k].found = 0 /\ ~IsSome(rec.id) => FreshId(tools) # 0
       /\ tools' = r.tbl
       /\ cat' = [cat EXCEPT ![k] =
             CASE cat[k].pc = "acp_write" ->
                      IF r.ok THEN [cat[k] EXCEPT !.pc = "acp_next"]
                      ELSE AfterPayload(cat[k], FALSE)
               [] cat[k].pc = "ap_write" -> Return(cat[k], IF r.ok THEN "ok" ELSE "error")
               [] cat[k].pc = "up_write" ->
                      IF r.ok THEN [Return(cat[k], "ok") EXCEPT !.last = rec]
                      ELSE [Return(cat[k], "error") EXCEPT !.last = NoRow]
               [] OTHER ->
                      IF r.ok THEN [cat[k] EXCEPT !.pc = "cs_next"]
                      ELSE Return(cat[k], "error")]
    /\ UNCHANGED <<pureVars, logVars, variant, sources, supVars>>

\* McpStore::upsert_tool called with a record of the caller's making
UpsertRecord(v, source_id, identifier, name, command) ==
    LET value == build_config_json(name, [command |-> Some(command)]) IN
    [id |-> None, source_id |-> source_id, identifier |-> identifier,
     name |-> name, source_type |-> "local", status |-> "stopped",
     ping_ms |-> None, error |-> None, command |-> Some(command),
     config_json |-> to_string(value),
     config_hash |-> compute_config_hash(v, value),
     pending_config_json |-> None, pending_config_hash |-> None,
     conflict_status |-> "none", is_read_only |-> FALSE]

CallUpsert(k, rec) ==
    /\ cat[k].pc = "idle"
    /\ cat' = [cat EXCEPT ![k] =
          [Begin(cat[k]) EXCEPT !.pc = "up_find", !.op = "upsert", !.rec = rec]]
    /\ UNCHANGED <<pureVars, logVars, variant, sources, tools, supVars>>

\* apply_pending_update (PATCH /tools/{id}/config, apply_pending_config,
\* resolve_mcp_conflict "update"): get_tool
CallApplyPending(k, t, op) ==
    /\ cat[k].pc = "idle"
    /\ op \in {"apply", "resolve"}
    /\ op = "resolve" => variant = "tauri"
    /\ cat' = [cat EXCEPT ![k] =
          IF tools[t] = NoRow
          THEN Return([Begin(cat[k]) EXCEPT !.op = op, !.tool = t], "not_found")
          ELSE [Begin(cat[k]) EXCEPT !.pc = "ap_pending", !.op = op, !.tool = t,
                               !.ex = tools[t]]]
    /\ UNCHANGED <<pureVars, logVars, variant, sources, tools, supVars>>

\* apply_pending_update: get_pending_config_json; None is a Validation error
ApplyReadPending(k) ==
    /\ cat[k].pc = "ap_pending"
    /\ LET pending == tools[cat[k].tool].pending_config_json IN
       cat' = [cat EXCEPT ![k] =
          IF IsSome(pending)
          THEN [@ EXCEPT !.pc = "ap_find", !.config_json = Unwrap(pending)]
          ELSE Return(cat[k], "no_pending")]
    /\ UNCHANGED <<pureVars, logVars, variant, sources, tools, supVars>>

\* resolve_mcp_conflict "keep": clear_pending_update, then get_tool
ResolveKeep(k, t) ==
    /\ cat[k].pc = "idle"
    /\ variant = "tauri"
    /\ tools' = clear_pending_update(tools, t)
    /\ cat' = [cat EXCEPT ![k] =
          Return([Begin(cat[k]) EXCEPT !.op = "keep", !.tool = t],
                 IF tools[t] = NoRow THEN "not_found" ELSE "ok")]
    /\ UNCHANGED <<pureVars, logVars, variant, sources, supVars>>

\* resolve_mcp_conflict with any other action: "invalid action"
ResolveInvalid(k) ==
    /\ cat[k].pc = "idle"
    /\ variant = "tauri"
    /\ cat' = [cat EXCEPT ![k] =
          Return([Begin(cat[k]) EXCEPT !.op = "resolve"], "invalid_action")]
    /\ UNCHANGED <<pureVars, logVars, variant, sources, tools, supVars>>

\* sync_cloud_subscriptions: the subscription list is fetched, then
\* ensure_cloud_source
CallCloudSync(k, subs) ==
    /\ cat[k].pc = "idle"
    /\ variant = "tauri"
    /\ find_source_by_type(sources, "cloud") # ""
    /\ cat' = [cat EXCEPT ![k] =
          [Begin(cat[k]) EXCEPT !.pc = "cs_next", !.op = "cloud",
                          !.source = find_source_by_type(sources, "cloud"),
                          !.src_type = "cloud", !.src_ro = TRUE,
                          !.todo = {[identifier |-> i, name |-> CloudName(i),
                                     command |-> subs[i]] : i \in DOMAIN subs}]]
    /\ UNCHANGED <<pureVars, logVars, variant, sources, tools, supVars>>

\* sync_cloud_subscriptions: the request or the response fails
CloudSyncFetchFail(k) ==
    /\ cat[k].pc = "idle"
    /\ variant = "tauri"
    /\ cat' = [cat EXCEPT ![k] = Return([Begin(cat[k]) EXCEPT !.op = "cloud"], "error")]
    /\ UNCHANGED <<pureVars, logVars, variant, sources, tools, supVars>>

\* sync_cloud_subscriptions: next subscription: record the identifier as
\* seen, build and hash the config, query has_name_conflict
CloudEntry(k, e) ==
    /\ cat[k].pc = "cs_next"
    /\ e \in cat[k].todo
    /\ LET value == build_cloud_config_json(e) IN
       cat' = [cat EXCEPT ![k] =
          [@ EXCEPT !.pc = "cs_existing", !.todo = @ \ {e},
                    !.seen = @ \union {e.identifier},
                    !.name = e.name, !.identifier = Some(e.identifier),
                    !.command = Some(e.command),
                    !.config_json = to_string(value),
                    !.config_hash = compute_config_hash(variant, value),
                    !.name_conflict = has_name_conflict(tools, e.name, cat[k].source),
                    !.existing = 0, !.ex = NoRow, !.found = 0]]
    /\ UNCHANGED <<pureVars, logVars, variant, sources, tools, supVars>>

\* sync_cloud_subscriptions: get_tool_by_source_identifier, then classify
CloudExisting(k) ==
    /\ cat[k].pc = "cs_existing"
    /\ LET id == get_tool_by_source_identifier(tools, cat[k].source,
                                               Unwrap(cat[k].identifier)) IN
       cat' = [cat EXCEPT ![k] =
          [@ EXCEPT !.existing = id,
                    !.ex = IF id = 0 THEN NoRow ELSE tools[id],
                    !.pc = IF id = 0 THEN "cs_find"
                           ELSE IF HashUnchanged(tools[id].config_hash, cat[k].config_hash)
                           THEN "cs_next"
                           ELSE "cs_mark"]]
    /\ UNCHANGED <<pureVars, logVars, variant, sources, tools, supVars>>

\* sync_cloud_subscriptions: mark_tool_pending_update
CloudMark(k) ==
    /\ cat[k].pc = "cs_mark"
    /\ tools' = mark_tool_pending_update(tools, cat[k].existing, cat[k].config_json,
                    cat[k].config_hash, PendingConflictStatus(cat[k].name_conflict))
    /\ cat' = [cat EXCEPT ![k].pc = "cs_next"]
    /\ UNCHANGED <<pureVars, logVars, variant, sources, supVars>>

\* removal sweep: the tools of list_tools() the sweep orphans
SweepAllCloudTools(tbl, source_id, seen) ==
    {id \in Rows(tbl) : tbl[id].source_id = source_id}
SweepTargets(tbl, source_id, seen) ==
    {id \in Rows(tbl) : /\ tbl[id].source_id = source_id
                        /\ IsSome(tbl[id].identifier)
                        /\ Unwrap(tbl[id].identifier) \notin seen}

\* sync_cloud_subscriptions: all subscriptions done: list_tools()
CloudList(k) ==
    /\ cat[k].pc = "cs_next"
    /\ cat[k].todo = {}
    /\ cat' = [cat EXCEPT ![k].pc = "cs_sweep",
                          ![k].sweep = SweepTargets(tools, cat[k].source, cat[k].seen)]
    /\ UNCHANGED <<pureVars, logVars, variant, sources, tools, supVars>>

\* removal sweep: set_tool_status(Orphaned, "cloud subscription removed")
\* for the next listed tool (and the mcp-log event for it)
CloudSweep(k) ==
    /\ cat[k].pc = "cs_sweep"
    /\ cat[k].sweep # {}
    /\ LET id == FirstOf(cat[k].sweep) IN
       /\ tools' = set_tool_status(tools, id, "orphaned", None,
                                   Some("cloud subscription removed"))
       /\ cat' = [cat EXCEPT ![k].sweep = @ \ {id}]
    /\ UNCHANGED <<pureVars, logVars, variant, sources, supVars>>

\* sync_cloud_subscriptions: the sweep is over: list_tools(), return Ok
CloudDone(k) ==
    /\ cat[k].pc = "cs_sweep"
    /\ cat[k].sweep = {}
    /\ cat' = [cat EXCEPT ![k] = Return(cat[k], "ok")]
    /\ UNCHANGED <<pureVars, logVars, variant, sources, tools, supVars>>

\* the steps inside a request of task k
Steps(k) ==
    \/ SyncSetSyncing(k)
    \/ \E m \in Manifests : SyncFetch(k, m)
    \/ SyncFetchFail(k)
    \/ SyncReconcileFail(k)
    \/ SyncDone(k)
    \/ SyncFail(k)
    \/ AcpFinish(k)
    \/ \E e \in cat[k].todo : AcpEntry(k, e)
    \/ AcpExisting(k)
    \/ AcpMark(k)
    \/ UpsertFindStep(k)
    \/ UpsertWriteStep(k)
    \/ ApplyReadPending(k)
    \/ \E e \in cat[k].todo : CloudEntry(k, e)
    \/ CloudExisting(k)
    \/ CloudMark(k)
    \/ CloudList(k)
    \/ CloudSweep(k)
    \/ CloudDone(k)

\* one client issuing up to MaxSeqCalls requests, one after the other; the
\* source the user adds is a writable or a read-only local file or a URL,
\* and it is the source the client syncs
SeqTask == "a"
SourceKinds == {<<"local", FALSE>>, <<"local", TRUE>>, <<"url", FALSE>>}

Next ==
    \/ \E kind \in SourceKinds : CreateSource("s_extra", kind[1], kind[2])
    \/ /\ cat[SeqTask].calls < MaxSeqCalls
       /\ \/ \E src \in SourceIds, m \in Manifests : CallImport(SeqTask, src, m)
          \/ CallSync(SeqTask, "s_extra")
          \/ \E t \in RowIds, op \in {"apply", "resolve"} :
                CallApplyPending(SeqTask, t, op)
          \/ \E t \in RowIds : ResolveKeep(SeqTask, t)
          \/ ResolveInvalid(SeqTask)
          \/ \E subs \in Subscriptions : CallCloudSync(SeqTask, subs)
          \/ CloudSyncFetchFail(SeqTask)
    \/ Steps(SeqTask)

\* the sources table from an empty database: startup provisions on the main
\* task, then two clients call ensure_*_source and create sources of any type
SrcCalls == cat["a"].calls + cat["b"].calls

SrcNext ==
    \/ /\ SrcCalls < MaxSrcCalls
       /\ \E k \in CatTasks, source_type \in {"local", "cloud"} :
             /\ ~StartupDone =>
                    /\ k = SeqTask
                    /\ source_type = (IF SourcesOfType(sources, "local") = {}
                                      THEN "local" ELSE "cloud")
             /\ CallEnsure(k, source_type)
    \/ \E k \in CatTasks : EnsureFind(k)
    \/ \E k \in CatTasks : EnsureInsert(k)
    \/ /\ StartupDone
       /\ FreshSourceId(sources) # ""
       /\ \E source_type \in SourceTypes, is_read_only \in BOOLEAN :
             CreateSource(FreshSourceId(sources), source_type, is_read_only)

\* two clients, MaxConcCalls requests between them, interleaving at every
\* store statement; both work on the tool named alpha and on the
\* subscription i1 (or on none), and apply or resolve tools that exist
ConcManifests == {m \in Manifests : DOMAIN m = {"alpha"}}
ConcSubscriptions == {subs \in Subscriptions : DOMAIN subs \subseteq {"i1"}}

ConcCalls == cat["a"].calls + cat["b"].calls

ConcNext ==
    \/ CreateSource("s_extra", "url", FALSE)
    \/ \E k \in CatTasks :
        \/ /\ ConcCalls < MaxConcCalls
           /\ \/ \E src \in SourceIds, m \in ConcManifests : CallImport(k, src, m)
              \/ \E t \in Rows(tools) : CallApplyPending(k, t, "apply")
              \/ \E t \in Rows(tools) : ResolveKeep(k, t)
              \/ \E subs \in ConcSubscriptions : CallCloudSync(k, subs)
        \/ AcpFinish(k)
        \/ \E e \in cat[k].todo : AcpEntry(k, e)
        \/ AcpExisting(k)
        \/ AcpMark(k)
        \/ UpsertFindStep(k)
        \/ UpsertWriteStep(k)
        \/ ApplyReadPending(k)
        \/ \E e \in cat[k].todo : CloudEntry(k, e)
        \/ CloudExisting(k)
        \/ CloudMark(k)
        \/ CloudList(k)
        \/ CloudSweep(k)
        \/ CloudDone(k)

\* the store driven directly: upsert_tool with records of every shape
UpsertRecords(v) ==
    {UpsertRecord(v, src, i, n, c) :
        src \in {"s_local"},
        i \in IF v = "backend" THEN {None} ELSE {None} \union {Some(x) : x \in Identifiers},
        n \in Names, c \in Commands}

StoreNext ==
    \/ /\ cat[SeqTask].calls < MaxSeqCalls
       /\ \E rec \in UpsertRecords(variant) : CallUpsert(SeqTask, rec)
    \/ UpsertFindStep(SeqTask)
    \/ UpsertWriteStep(SeqTask)

-----------------------------------------------------------------------------
(* ProcessManager *)

\* LogBuffer::push: evict the oldest entry at capacity, then append
LogBufferPushNoEvict(entries, capacity, entry) == Append(entries, entry)
LogBufferPush(entries, capacity, entry) ==
    IF Len(entries) >= capacity
    THEN Append(Tail(entries), entry)
    ELSE Append(entries, entry)

\* emit_log: push the entry into the tool's ring
emit_log(lg, tool_id, stream, message) ==
    [lg EXCEPT ![tool_id] =
        LogBufferPush(@, LogBufferSize, [stream |-> stream, message |-> message])]

\* logs(tool_id): the ring's entries, front (oldest) to back
logs_of(lg, tool_id) == lg[tool_id]

\* clear_logs (Tauri host): replace the ring by an empty one
clear_logs(lg, tool_id) == [lg EXCEPT ![tool_id] = <<>>]

LogClients == {"r1", "r2"}
EmitTasks == {"reader", "event"}
LogTools == {1, 2}

NoReceiver == [state |-> "none", tool |-> 0, next |-> 0, from |-> 0,
               got |-> <<>>, lagged |-> FALSE,
               snapped |-> FALSE, snap |-> <<>>, snap_at |-> 0]
IdleEmitter == [pc |-> "idle", tool |-> 0, entry |-> [stream |-> "", message |-> ""]]

\* what each kind of emitter hands to emit_log: a reader the lines of the
\* child's output (the stderr reader is the same loop with another stream
\* label), the others an event
EmitInputs(e) ==
    IF e = "reader"
    THEN {[stream |-> "stdout", message |-> "out line"]}
    ELSE {[stream |-> "event", message |-> "process stopped"]}

\* receivers of the tool's channel that are still alive
ReceiverCount(rx, tool_id) ==
    Cardinality({r \in LogClients : rx[r].state = "open" /\ rx[r].tool = tool_id})

\* broadcast::Sender::send: with no receiver the value is returned as an
\* error and not stored; otherwise it takes the next position
BroadcastSendDropped(sent, entry, rx_cnt) == sent
BroadcastSend(sent, entry, rx_cnt) ==
    IF rx_cnt = 0 THEN sent ELSE Append(sent, entry)

\* emit_log after the push: send on the sender passed in, or on the one
\* found in the broadcasters map, ignoring the result
SendReadyWhenRoom(ch, rx, tool_id) ==
    \A r \in LogClients :
        rx[r].state = "open" /\ rx[r].tool = tool_id =>
            Len(ch[tool_id]) - rx[r].next < BroadcastCapacity

\* `let _ = sender.send(entry)`: broadcast::Sender::send is not awaited and
\* never waits for a receiver to make room
SendReady(ch, rx, tool_id) == TRUE

SendLogSenderOnly(ch, bc, rx, tool_id, entry, has_sender) ==
    IF has_sender
    THEN [ch EXCEPT ![tool_id] = BroadcastSend(@, entry, ReceiverCount(rx, tool_id))]
    ELSE ch

SendLog(ch, bc, rx, tool_id, entry, has_sender) ==
    IF has_sender \/ bc[tool_id]
    THEN [ch EXCEPT ![tool_id] = BroadcastSend(@, entry, ReceiverCount(rx, tool_id))]
    ELSE ch

\* ensure_broadcaster: entry(tool_id).or_insert_with(channel)
ensure_broadcaster(bc, tool_id) == [bc EXCEPT ![tool_id] = TRUE]

\* format!("process exited with code {exit_code}")
ExitMessage(code) ==
    CASE code = 0 -> "process exited with code 0"
      [] code = 7 -> "process exited with code 7"
      [] OTHER -> "process exited with code -1"

\* exit codes a child ends with on its own
ExitCodes == {0, 7}

\* the exit monitor's mapping of the exit code to the tool status
ExitStatusAlwaysStopped(exit_code) == "stopped"
MonitorStatus(exit_code) == IF exit_code = 0 THEN "stopped" ELSE "crashed"

\* start_tool: processes.contains_key(&tool.id)
ContainsKeyNever(procs, tool_id) == FALSE
ContainsKey(procs, tool_id) == procs[tool_id] # 0

IdleSup == [pc |-> "idle", tool |-> 0, command |-> None, child |-> 0,
            result |-> "none", calls |-> 0, missing |-> <<>>]

\* missing_required_env: the keys of the env_config entries of the tool's
\* config that are required, not empty, and have no non-empty value in the
\* tool's env, in the order of env_config; nothing when the config has no
\* env_config array
RECURSIVE MissingFrom(_, _, _)
MissingFrom(env_config, env, i) ==
    IF i > Len(env_config) THEN <<>>
    ELSE LET item == env_config[i]
             present == /\ IsSome(env)
                        /\ item.key \in DOMAIN Unwrap(env)
                        /\ Unwrap(env)[item.key] # ""
         IN (IF ~item.required \/ item.key = "" \/ present
             THEN <<>> ELSE <<item.key>>) \o MissingFrom(env_config, env, i + 1)

missing_required_env(tool) ==
    IF "env_config" \in DOMAIN tool /\ IsSome(tool.env_config)
    THEN MissingFrom(Unwrap(tool.env_config), tool.env, 1)
    ELSE <<>>

\* format!("missing required env: {}", missing.join(", "))
MissingEnvMessage(missing) ==
    CASE missing = <<"API_KEY">> -> "missing required env: API_KEY"
      [] missing = <<"TOKEN">> -> "missing required env: TOKEN"
      [] missing = <<"API_KEY", "TOKEN">> -> "missing required env: API_KEY, TOKEN"
      [] OTHER -> "missing required env: "

\* the host whose start command checks the required env before it calls
\* start_tool: the Tauri command does, the backend route does not
ChecksRequiredEnv(v) == v = "tauri"
IdleMon == [pc |-> "none", code |-> 0]
NoChild == [tool |-> 0, state |-> "unborn", code |-> 0]

NextChild == Cardinality({c \in ChildIds : children[c].state # "unborn"}) + 1

\* routes::start_tool / start_mcp_tool: read the tool row; the Tauri command
\* computes the missing required env and refuses the start when there is
\* any; otherwise call start_tool
CallStart(u, t) ==
    /\ sup[u].pc = "idle"
    /\ sup[u].calls < MaxCalls
    /\ tools[t] # NoRow
    /\ LET missing == IF ChecksRequiredEnv(variant)
                      THEN missing_required_env(tools[t]) ELSE <<>>
       IN sup' = [sup EXCEPT ![u] =
              [pc |-> IF missing # <<>> THEN "st_gate" ELSE "st_begin", tool |-> t,
               command |-> tools[t].command, child |-> 0,
               result |-> "none", calls |-> @.calls + 1, missing |-> missing]]
    /\ UNCHANGED <<pureVars, logVars, variant, sources, tools, cat, processes, procLock, children,
                   childLock, mon, logs>>

\* start_mcp_tool with missing required env: set_tool_status(Pending, None,
\* Some(message)), emit the message as an app event (the log ring is not
\* written), return the error
StartGate(u) ==
    /\ sup[u].pc = "st_gate"
    /\ tools' = set_tool_status(tools, sup[u].tool, "pending", None,
                                Some(MissingEnvMessage(sup[u].missing)))
    /\ sup' = [sup EXCEPT ![u].pc = "idle", ![u].result = "missing_env"]
    /\ UNCHANGED <<pureVars, logVars, variant, sources, cat, processes, procLock,
                   children, childLock, mon, logs>>

\* start_tool: take the processes write lock, reject a present handle and
\* a missing command (both return with the lock dropped)
StartBegin(u) ==
    /\ sup[u].pc = "st_begin"
    /\ procLock = "free"
    /\ IF ContainsKey(processes, sup[u].tool)
       THEN /\ sup' = [sup EXCEPT ![u].pc = "idle", ![u].result = "already_running"]
            /\ UNCHANGED procLock
       ELSE IF ~IsSome(sup[u].command)
       THEN /\ sup' = [sup EXCEPT ![u].pc = "idle", ![u].result = "missing_command"]
            /\ UNCHANGED procLock
       ELSE /\ sup' = [sup EXCEPT ![u].pc = "st_starting"]
            /\ procLock' = u
    /\ UNCHANGED <<pureVars, logVars, variant, sources, tools, cat, processes, children, childLock,
                   mon, logs>>

\* start_tool: set_tool_status(Starting), the write lock still held
StartSetStarting(u) ==
    /\ sup[u].pc = "st_starting"
    /\ tools' = set_tool_status(tools, sup[u].tool, "starting", None, None)
    /\ sup' = [sup EXCEPT ![u].pc = "st_spawn"]
    /\ UNCHANGED <<pureVars, logVars, variant, sources, cat, processes, procLock, children,
                   childLock, mon, logs>>

\* start_tool: cmd.spawn() fails: the error is returned, the lock dropped
StartSpawnFail(u) ==
    /\ sup[u].pc = "st_spawn"
    /\ procLock' = "free"
    /\ sup' = [sup EXCEPT ![u].pc = "idle", ![u].result = "spawn_failed"]
    /\ UNCHANGED <<pureVars, logVars, variant, sources, tools, cat, processes, children, childLock,
                   mon, logs>>

RecordHandleNowhere(procs, tool_id, child) == procs

\* processes.insert(tool.id, ProcessHandle { child })
RecordHandle(procs, tool_id, child) == [procs EXCEPT ![tool_id] = child]

\* start_tool: cmd.spawn() succeeds: record the handle, drop the lock, make
\* sure the tool has a broadcaster (backend) and a log ring
StartSpawn(u) ==
    /\ sup[u].pc = "st_spawn"
    /\ NextChild \in ChildIds
    /\ children' = [children EXCEPT ![NextChild] =
                        [tool |-> sup[u].tool, state |-> "running", code |-> 0]]
    /\ processes' = RecordHandle(processes, sup[u].tool, NextChild)
    /\ procLock' = "free"
    /\ sup' = [sup EXCEPT ![u].pc = "st_healthy", ![u].child = NextChild]
    /\ broadcasters' = IF variant = "backend"
                       THEN ensure_broadcaster(broadcasters, sup[u].tool)
                       ELSE broadcasters
    /\ UNCHANGED <<pureVars, channel, receivers, emitters, emitted, variant, sources, tools,
                   cat, childLock, mon, logs>>

\* start_tool: set_tool_status(Healthy)
StartSetHealthy(u) ==
    /\ sup[u].pc = "st_healthy"
    /\ tools' = set_tool_status(tools, sup[u].tool, "healthy", None, None)
    /\ sup' = [sup EXCEPT ![u].pc = "st_emit"]
    /\ UNCHANGED <<pureVars, logVars, variant, sources, cat, processes, procLock, children,
                   childLock, mon, logs>>

\* start_tool: emit the "process started" event
StartEmitStarted(u) ==
    /\ sup[u].pc = "st_emit"
    /\ logs' = emit_log(logs, sup[u].tool, "event", "process started")
    /\ channel' = SendLog(channel, broadcasters, receivers, sup[u].tool,
                          [stream |-> "event", message |-> "process started"], FALSE)
    /\ sup' = [sup EXCEPT ![u].pc = "st_monitor"]
    /\ UNCHANGED <<pureVars, broadcasters, receivers, emitters, emitted, variant, sources, tools, cat, processes, procLock, children,
                   childLock, mon>>

\* start_tool: spawn_monitor, return Ok
StartSpawnMonitor(u) ==
    /\ sup[u].pc = "st_monitor"
    /\ mon' = [mon EXCEPT ![sup[u].child] = [pc |-> "polling", code |-> 0]]
    /\ sup' = [sup EXCEPT ![u].pc = "idle", ![u].result = "started"]
    /\ UNCHANGED <<pureVars, logVars, variant, sources, tools, cat, processes, procLock, children,
                   childLock, logs>>

\* routes::stop_tool / stop_mcp_tool: call stop_tool
CallStop(u, t) ==
    /\ sup[u].pc = "idle"
    /\ sup[u].calls < MaxCalls
    /\ tools[t] # NoRow
    /\ sup' = [sup EXCEPT ![u] = [pc |-> "sp_read", tool |-> t, command |-> None,
                                  child |-> 0, result |-> "none",
                                  calls |-> @.calls + 1, missing |-> <<>>]]
    /\ UNCHANGED <<pureVars, logVars, variant, sources, tools, cat, processes, procLock, children,
                   childLock, mon, logs>>

\* processes.get(tool_id).cloned(): the child of the handle, 0 for None
ProcessesGetFirstChild(procs, tool_id) == IF procs[tool_id] = 0 THEN 1 ELSE procs[tool_id]
ProcessesGet(procs, tool_id) == procs[tool_id]

\* the processes lock after the block `{ let processes = read().await;
\* processes.get(tool_id).cloned() }`: the read guard is dropped with the block
ReadGuardKept(u) == u
ReadGuardAfterBlock(u) == "free"

\* stop_tool: processes.read().get(tool_id).cloned()
StopRead(u) ==
    /\ sup[u].pc = "sp_read"
    /\ procLock = "free"
    /\ procLock' = ReadGuardAfterBlock(u)
    /\ sup' = [sup EXCEPT ![u].child = ProcessesGet(processes, sup[u].tool),
                          ![u].pc = IF ProcessesGet(processes, sup[u].tool) = 0
                                    THEN "sp_nohandle" ELSE "sp_kill"]
    /\ UNCHANGED <<pureVars, logVars, variant, sources, tools, cat, processes, children,
                   childLock, mon, logs>>

\* stop_tool, no handle: set_tool_status(Stopped), return Ok
StopNoHandle(u) ==
    /\ sup[u].pc = "sp_nohandle"
    /\ tools' = set_tool_status(tools, sup[u].tool, "stopped", None, None)
    /\ sup' = [sup EXCEPT ![u].pc = "idle", ![u].result = "stopped_nohandle"]
    /\ UNCHANGED <<pureVars, logVars, variant, sources, cat, processes, procLock, children,
                   childLock, mon, logs>>

\* stop_tool: lock the child and kill it.  A running child is ended by the
\* signal and reaped; a child that exited but was not yet reaped keeps its
\* exit code.
StopKill(u) ==
    /\ sup[u].pc = "sp_kill"
    /\ childLock[sup[u].child] = "free"
    /\ children[sup[u].child].state \in {"running", "exited"}
    /\ childLock' = [childLock EXCEPT ![sup[u].child] = u]
    /\ children' = [children EXCEPT ![sup[u].child] =
           [@ EXCEPT !.state = "reaped",
                     !.code = IF children[sup[u].child].state = "running"
                              THEN KilledExitCode ELSE @]]
    /\ sup' = [sup EXCEPT ![u].pc = "sp_set",
                          ![u].result = IF children[sup[u].child].state = "running"
                                        THEN "killed_running" ELSE "killed_exited"]
    /\ UNCHANGED <<pureVars, logVars, variant, sources, tools, cat, processes, procLock, mon, logs>>

\* stop_tool on a child whose exit was already collected (by the monitor or
\* by an earlier kill): Child::kill either reports the exited process as an
\* error or succeeds, depending on the tokio release the build links
StopKillDone(u, ok) ==
    /\ sup[u].pc = "sp_kill"
    /\ childLock[sup[u].child] = "free"
    /\ children[sup[u].child].state = "reaped"
    /\ IF ok
       THEN /\ childLock' = [childLock EXCEPT ![sup[u].child] = u]
            /\ sup' = [sup EXCEPT ![u].pc = "sp_set", ![u].result = "killed_done"]
       ELSE /\ UNCHANGED childLock
            /\ sup' = [sup EXCEPT ![u].pc = "idle", ![u].result = "kill_failed"]
    /\ UNCHANGED <<pureVars, logVars, variant, sources, tools, cat, processes, procLock, children,
                   mon, logs>>

\* stop_tool: set_tool_status(Stopped), the child mutex still held
StopSetStopped(u) ==
    /\ sup[u].pc = "sp_set"
    /\ tools' = set_tool_status(tools, sup[u].tool, "stopped", None, None)
    /\ sup' = [sup EXCEPT ![u].pc = "sp_emit"]
    /\ UNCHANGED <<pureVars, logVars, variant, sources, cat, processes, procLock, children,
                   childLock, mon, logs>>

\* stop_tool: emit "process stopped", return Ok (the guard is dropped)
StopEmit(u) ==
    /\ sup[u].pc = "sp_emit"
    /\ logs' = emit_log(logs, sup[u].tool, "event", "process stopped")
    /\ channel' = SendLog(channel, broadcasters, receivers, sup[u].tool,
                          [stream |-> "event", message |-> "process stopped"], FALSE)
    /\ childLock' = [childLock EXCEPT ![sup[u].child] = "free"]
    /\ sup' = [sup EXCEPT ![u].pc = "idle",
                          ![u].result = IF @ = "killed_running"
                                        THEN "stopped_running" ELSE "stopped"]
    /\ UNCHANGED <<pureVars, broadcasters, receivers, emitters, emitted, variant, sources, tools, cat, processes, procLock, children, mon>>

\* the child process ends on its own with an exit code
ChildExit(c, code) ==
    /\ children[c].state = "running"
    /\ children' = [children EXCEPT ![c] = [@ EXCEPT !.state = "exited", !.code = code]]
    /\ UNCHANGED <<pureVars, logVars, variant, sources, tools, cat, processes, procLock, childLock,
                   sup, mon, logs>>

\* spawn_monitor: after the sleep, lock the child; try_wait returns the exit
\* status (Ok(None) releases the lock and loops: no change of state)
MonitorObserve(c) ==
    /\ mon[c].pc = "polling"
    /\ childLock[c] = "free"
    /\ children[c].state \in {"exited", "reaped"}
    /\ childLock' = [childLock EXCEPT ![c] = MonTask]
    /\ children' = [children EXCEPT ![c].state = "reaped"]
    /\ mon' = [mon EXCEPT ![c] = [pc |-> "m_emit", code |-> children[c].code]]
    /\ UNCHANGED <<pureVars, logVars, variant, sources, tools, cat, processes, procLock, sup, logs>>

\* spawn_monitor: emit "process exited with code N"
MonitorEmit(c) ==
    /\ mon[c].pc = "m_emit"
    /\ logs' = emit_log(logs, children[c].tool, "event", ExitMessage(mon[c].code))
    /\ channel' = SendLog(channel, broadcasters, receivers, children[c].tool,
                          [stream |-> "event",
                           message |-> ExitMessage(mon[c].code)], FALSE)
    /\ mon' = [mon EXCEPT ![c].pc = "m_set"]
    /\ UNCHANGED <<pureVars, broadcasters, receivers, emitters, emitted, variant, sources, tools, cat, processes, procLock, children,
                   childLock, sup>>

\* spawn_monitor: set_tool_status(Stopped | Crashed, error = message)
MonitorSetStatus(c) ==
    /\ mon[c].pc = "m_set"
    /\ tools' = set_tool_status(tools, children[c].tool, MonitorStatus(mon[c].code),
                                None, Some(ExitMessage(mon[c].code)))
    /\ mon' = [mon EXCEPT ![c].pc = "m_remove"]
    /\ UNCHANGED <<pureVars, logVars, variant, sources, cat, processes, procLock, children,
                   childLock, sup, logs>>

\* processes.remove(&tool_id)
ProcessesRemoveNothing(procs, tool_id) == procs
ProcessesRemove(procs, tool_id) == [procs EXCEPT ![tool_id] = 0]

\* spawn_monitor: processes.write().remove(&tool_id), leave the loop
MonitorRemove(c) ==
    /\ mon[c].pc = "m_remove"
    /\ procLock = "free"
    /\ processes' = ProcessesRemove(processes, children[c].tool)
    /\ childLock' = [childLock EXCEPT ![c] = "free"]
    /\ mon' = [mon EXCEPT ![c].pc = "done"]
    /\ UNCHANGED <<pureVars, logVars, variant, sources, tools, cat, procLock, children, sup, logs>>

\* start_tool, after the handle is recorded: ensure_broadcaster (backend) and
\* ensure_log_buffer, from which the readers get their sender
EnsureBroadcaster(t) ==
    /\ variant = "backend"
    /\ ~broadcasters[t]
    /\ broadcasters' = ensure_broadcaster(broadcasters, t)
    /\ UNCHANGED <<pureVars, channel, receivers, emitters, emitted, variant, sources, tools,
                   cat, supVars>>

\* tool_logs_stream: subscribe_logs(tool_id) makes sure of the broadcaster and
\* subscribes; the receiver starts at the channel's tail
Subscribe(r, t) ==
    /\ variant = "backend"
    /\ receivers[r].state = "none"
    /\ broadcasters' = ensure_broadcaster(broadcasters, t)
    /\ receivers' = [receivers EXCEPT ![r] =
           [state |-> "open", tool |-> t, next |-> Len(channel[t]),
            from |-> Len(channel[t]), got |-> <<>>, lagged |-> FALSE,
            snapped |-> FALSE, snap |-> <<>>, snap_at |-> 0]]
    /\ UNCHANGED <<pureVars, channel, emitters, emitted, variant, sources, tools, cat, supVars>>

\* emit_log, first half: build the entry and push it into the tool's ring.
\* A reader runs only for a started tool: in the backend it holds a clone of
\* the sender start_tool got from ensure_broadcaster.
EmitPush(e, t, entry) ==
    /\ emitters[e].pc = "idle"
    /\ Len(emitted[1]) + Len(emitted[2]) < MaxEmits
    /\ e = "reader" /\ variant = "backend" => broadcasters[t]
    /\ logs' = emit_log(logs, t, entry.stream, entry.message)
    /\ emitted' = [emitted EXCEPT ![t] = Append(@, entry)]
    /\ emitters' = [emitters EXCEPT ![e] = [pc |-> "send", tool |-> t, entry |-> entry]]
    /\ UNCHANGED <<pureVars, broadcasters, channel, receivers, variant, sources, tools, cat,
                   processes, procLock, children, childLock, sup, mon>>

\* emit_log, second half: the backend sends the entry on the channel; the
\* Tauri host emits an app event, which no state of the manager records
EmitSend(e) ==
    /\ emitters[e].pc = "send"
    /\ SendReady(channel, receivers, emitters[e].tool)
    /\ channel' = IF variant = "backend"
                  THEN SendLog(channel, broadcasters, receivers, emitters[e].tool,
                               emitters[e].entry, e = "reader")
                  ELSE channel
    /\ emitters' = [emitters EXCEPT ![e] = IdleEmitter]
    /\ UNCHANGED <<pureVars, broadcasters, receivers, emitted, variant, sources, tools, cat,
                   supVars>>

\* tool_logs: the client that holds the stream takes logs(tool_id), the
\* ring's entries oldest first (snap_at: how many entries had been pushed)
Snapshot(r) ==
    /\ receivers[r].state = "open"
    /\ ~receivers[r].snapped
    /\ receivers' = [receivers EXCEPT ![r] =
           [@ EXCEPT !.snapped = TRUE,
                     !.snap = logs_of(logs, receivers[r].tool),
                     !.snap_at = Len(emitted[receivers[r].tool])]]
    /\ UNCHANGED <<pureVars, broadcasters, channel, emitters, emitted, variant, sources, tools,
                   cat, supVars>>

\* BroadcastStream over the receiver: the next entry, or, when more than
\* the capacity is outstanding, a Lagged error (filtered out by the
\* route) that moves the receiver to the oldest retained entry
Recv(r) ==
    /\ receivers[r].state = "open"
    /\ receivers[r].next < Len(channel[receivers[r].tool])
    /\ LET sent == channel[receivers[r].tool]
           rx == receivers[r]
       IN receivers' = [receivers EXCEPT ![r] =
              IF Len(sent) - rx.next > BroadcastCapacity
              THEN [rx EXCEPT !.lagged = TRUE, !.next = Len(sent) - BroadcastCapacity]
              ELSE [rx EXCEPT !.got = Append(@, sent[rx.next + 1]),
                              !.next = rx.next + 1]]
    /\ UNCHANGED <<pureVars, broadcasters, channel, emitters, emitted, variant, sources, tools,
                   cat, supVars>>

\* the client closes the stream: the receiver is dropped
Disconnect(r) ==
    /\ receivers[r].state = "open"
    /\ receivers' = [receivers EXCEPT ![r].state = "closed"]
    /\ UNCHANGED <<pureVars, broadcasters, channel, emitters, emitted, variant, sources, tools,
                   cat, supVars>>

\* clear_mcp_logs (Tauri host): clear_logs(tool_id) installs a new ring
ClearLogs(t) ==
    /\ variant = "tauri"
    /\ emitted[t] # <<>>
    /\ logs' = clear_logs(logs, t)
    /\ emitted' = [emitted EXCEPT ![t] = <<>>]
    /\ UNCHANGED <<pureVars, broadcasters, channel, receivers, emitters, variant, sources,
                   tools, cat, processes, procLock, children, childLock, sup, mon>>

LogNext ==
    \/ \E t \in LogTools : EnsureBroadcaster(t)
    \/ \E r \in LogClients, t \in LogTools : Subscribe(r, t)
    \/ \E e \in EmitTasks, t \in LogTools : \E entry \in EmitInputs(e) :
          EmitPush(e, t, entry)
    \/ \E e \in EmitTasks : EmitSend(e)
    \/ \E r \in LogClients : Recv(r)
    \/ \E r \in LogClients : Disconnect(r)
    \/ \E t \in LogTools : ClearLogs(t)

\* the readers of one child (of tool 1): what the child writes on a stream,
\* in the order it writes it
Streams == {"stdout", "stderr"}
StreamTasks == Streams \union {"event"}
StreamTool == CHOOSE t \in LogTools : \A u \in LogTools : t <= u
StreamLines(s) == [i \in 1..MaxLines |-> [stream |-> s, line |-> i]]

\* the entries of a stream in a sequence of log entries
RECURSIVE OfStream(_, _)
OfStream(seq, s) ==
    IF seq = <<>> THEN <<>>
    ELSE IF Head(seq).stream = s THEN <<Head(seq)>> \o OfStream(Tail(seq), s)
    ELSE OfStream(Tail(seq), s)

NextLineNewestFirst(lines, read) == lines[Len(lines) - read]

\* lines.next_line(): the pipe hands over the lines in the order written
NextLine(lines, read) == lines[read + 1]

\* a reader task: next_line() returns the stream's next line and emit_log
\* pushes it into the ring
ReaderPush(s) ==
    /\ emitters[s].pc = "idle"
    /\ LET read == Len(OfStream(emitted[StreamTool], s)) IN
       /\ read < MaxLines
       /\ LET entry == [stream |-> s,
                        message |-> NextLine(StreamLines(s), read)] IN
          /\ logs' = emit_log(logs, StreamTool, entry.stream, entry.message)
          /\ emitted' = [emitted EXCEPT ![StreamTool] = Append(@, entry)]
          /\ emitters' = [emitters EXCEPT ![s] =
                              [pc |-> "send", tool |-> StreamTool, entry |-> entry]]
    /\ UNCHANGED <<pureVars, broadcasters, channel, receivers, variant, sources, tools, cat,
                   processes, procLock, children, childLock, sup, mon>>

\* a reader task: emit_log sends the line on the reader's sender (backend);
\* the loop then goes back to next_line()
ReaderSend(s) ==
    /\ s \in Streams
    /\ emitters[s].pc = "send"
    /\ channel' = IF variant = "backend"
                  THEN SendLog(channel, broadcasters, receivers, StreamTool,
                               emitters[s].entry, TRUE)
                  ELSE channel
    /\ emitters' = [emitters EXCEPT ![s] = IdleEmitter]
    /\ UNCHANGED <<pureVars, broadcasters, receivers, emitted, variant, sources, tools, cat,
                   supVars>>

\* the two readers of a child, the events of its tool, and a client on the
\* tool's stream
StreamClient == "r1"

StreamNext ==
    \/ \E s \in Streams : ReaderPush(s)
    \/ \E s \in Streams : ReaderSend(s)
    \/ \E entry \in EmitInputs("event") : EmitPush("event", StreamTool, entry)
    \/ EmitSend("event")
    \/ Subscribe(StreamClient, StreamTool)

\* clients tailing a tool: subscribe to the stream, then take the snapshot
TailNext ==
    \/ \E t \in LogTools : EnsureBroadcaster(t)
    \/ \E r \in LogClients, t \in LogTools : Subscribe(r, t)
    \/ \E r \in LogClients : Snapshot(r)
    \/ \E e \in EmitTasks, t \in LogTools : \E entry \in EmitInputs(e) :
          EmitPush(e, t, entry)
    \/ \E e \in EmitTasks : EmitSend(e)
    \/ \E r \in LogClients : Recv(r)

SupNext ==
    \/ \E u \in SupTasks, t \in RowIds : CallStart(u, t)
    \/ \E u \in SupTasks : StartBegin(u)
    \/ \E u \in SupTasks : StartSetStarting(u)
    \/ \E u \in SupTasks : StartSpawnFail(u)
    \/ \E u \in SupTasks : StartSpawn(u)
    \/ \E u \in SupTasks : StartSetHealthy(u)
    \/ \E u \in SupTasks : StartEmitStarted(u)
    \/ \E u \in SupTasks : StartSpawnMonitor(u)
    \/ \E u \in SupTasks, t \in RowIds : CallStop(u, t)
    \/ \E u \in SupTasks : StopRead(u)
    \/ \E u \in SupTasks : StopNoHandle(u)
    \/ \E u \in SupTasks : StopKill(u)
    \/ \E u \in SupTasks, ok \in BOOLEAN : StopKillDone(u, ok)
    \/ \E u \in SupTasks : StopSetStopped(u)
    \/ \E u \in SupTasks : StopEmit(u)
    \/ \E c \in ChildIds, code \in ExitCodes : ChildExit(c, code)
    \/ \E c \in ChildIds : MonitorObserve(c)
    \/ \E c \in ChildIds : MonitorEmit(c)
    \/ \E c \in ChildIds : MonitorSetStatus(c)
    \/ \E c \in ChildIds : MonitorRemove(c)

\* one client starting and stopping a tool whose config declares env_config
GateTask == "u1"

GateNext ==
    \/ \E t \in RowIds : CallStart(GateTask, t)
    \/ StartGate(GateTask)
    \/ StartBegin(GateTask)
    \/ StartSetStarting(GateTask)
    \/ StartSpawnFail(GateTask)
    \/ StartSpawn(GateTask)
    \/ StartSetHealthy(GateTask)
    \/ StartEmitStarted(GateTask)
    \/ StartSpawnMonitor(GateTask)
    \/ \E t \in RowIds : CallStop(GateTask, t)
    \/ StopRead(GateTask)
    \/ StopNoHandle(GateTask)
    \/ StopKill(GateTask)
    \/ \E ok \in BOOLEAN : StopKillDone(GateTask, ok)
    \/ StopSetStopped(GateTask)
    \/ StopEmit(GateTask)
    \/ \E c \in ChildIds, code \in ExitCodes : ChildExit(c, code)
    \/ \E c \in ChildIds : MonitorObserve(c)
    \/ \E c \in ChildIds : MonitorEmit(c)
    \/ \E c \in ChildIds : MonitorSetStatus(c)
    \/ \E c \in ChildIds : MonitorRemove(c)

\* an import into the local source while one supervisor client starts and
\* stops the tool the import updates, and the tool's exit monitor runs
MixNext ==
    \/ /\ cat[SeqTask].calls < MaxMixCalls
       /\ \E m \in ConcManifests : CallImport(SeqTask, "s_local", m)
    \/ \E e \in cat[SeqTask].todo : AcpEntry(SeqTask, e)
    \/ AcpExisting(SeqTask)
    \/ UpsertFindStep(SeqTask)
    \/ UpsertWriteStep(SeqTask)
    \/ AcpFinish(SeqTask)
    \/ \E t \in RowIds : CallStart(GateTask, t)
    \/ StartBegin(GateTask)
    \/ StartSetStarting(GateTask)
    \/ StartSpawnFail(GateTask)
    \/ StartSpawn(GateTask)
    \/ StartSetHealthy(GateTask)
    \/ StartEmitStarted(GateTask)
    \/ StartSpawnMonitor(GateTask)
    \/ \E t \in RowIds : CallStop(GateTask, t)
    \/ StopRead(GateTask)
    \/ StopNoHandle(GateTask)
    \/ StopKill(GateTask)
    \/ \E ok \in BOOLEAN : StopKillDone(GateTask, ok)
    \/ StopSetStopped(GateTask)
    \/ StopEmit(GateTask)
    \/ \E c \in ChildIds, code \in ExitCodes : ChildExit(c, code)
    \/ \E c \in ChildIds : MonitorObserve(c)
    \/ \E c \in ChildIds : MonitorEmit(c)
    \/ \E c \in ChildIds : MonitorSetStatus(c)
    \/ \E c \in ChildIds : MonitorRemove(c)

-----------------------------------------------------------------------------
(* Specifications *)

\* startup: init(), ensure_local_source() and, in the Tauri host,
\* ensure_cloud_source()
InitSources(v) ==
    [id \in SourceIds |->
        IF id = "s_local" THEN SourceRow("local", FALSE)
        ELSE IF id = "s_cloud" /\ v = "tauri" THEN SourceRow("cloud", TRUE)
        ELSE NoSource]

InitLog ==
    /\ broadcasters = [t \in RowIds |-> FALSE]
    /\ channel = [t \in RowIds |-> <<>>]
    /\ receivers = [r \in LogClients |-> NoReceiver]
    /\ emitters = [e \in EmitTasks |-> IdleEmitter]
    /\ emitted = [t \in RowIds |-> <<>>]

-----------------------------------------------------------------------------
(* Log-stream bridge of the Tauri host: mcp_bridge.rs *)

BridgeTools == LogTools

\* streams: tool id -> the task whose JoinHandle the map holds, 0 for none;
\* tasks: the stream_logs tasks spawned so far
IdleBridge == [streams |-> [t \in BridgeTools |-> 0], tasks |-> <<>>, calls |-> 0,
               last |-> [op |-> "none", tool |-> 0, result |-> "none"]]

\* start_mcp_log_stream: under the streams mutex, return Ok when the map has
\* an entry for the tool; otherwise spawn stream_logs and insert its handle
StartMcpLogStream(t) ==
    /\ bridge.calls < MaxBridgeCalls
    /\ bridge' =
          IF bridge.streams[t] # 0
          THEN [bridge EXCEPT !.calls = @ + 1,
                              !.last = [op |-> "start", tool |-> t, result |-> "ok"]]
          ELSE [bridge EXCEPT !.calls = @ + 1,
                              !.tasks = Append(@, [tool |-> t, state |-> "running"]),
                              !.streams[t] = Len(bridge.tasks) + 1,
                              !.last = [op |-> "start", tool |-> t, result |-> "ok"]]
    /\ UNCHANGED <<hashTest, logVars, variant, sources, tools, cat, supVars>>

\* stop_mcp_log_stream: under the streams mutex, remove the entry and abort
\* its task (abort of a finished task does nothing)
StopMcpLogStream(t) ==
    /\ bridge.calls < MaxBridgeCalls
    /\ bridge' =
          IF bridge.streams[t] = 0
          THEN [bridge EXCEPT !.calls = @ + 1,
                              !.last = [op |-> "stop", tool |-> t, result |-> "ok"]]
          ELSE [bridge EXCEPT !.calls = @ + 1,
                              !.streams[t] = 0,
                              !.tasks[bridge.streams[t]].state =
                                  IF @ = "running" THEN "aborting" ELSE @,
                              !.last = [op |-> "stop", tool |-> t, result |-> "ok"]]
    /\ UNCHANGED <<hashTest, logVars, variant, sources, tools, cat, supVars>>

\* stream_logs returns: the request failed, the status was not 2xx, a chunk
\* was an error, or the server closed the stream; the spawned task ends
StreamLogsReturns(i) ==
    /\ i \in DOMAIN bridge.tasks
    /\ bridge.tasks[i].state \in {"running", "aborting"}
    /\ bridge' = [bridge EXCEPT !.tasks[i].state = "ended"]
    /\ UNCHANGED <<hashTest, logVars, variant, sources, tools, cat, supVars>>

\* an aborted task is cancelled at its next await point
StreamLogsCancelled(i) ==
    /\ i \in DOMAIN bridge.tasks
    /\ bridge.tasks[i].state = "aborting"
    /\ bridge' = [bridge EXCEPT !.tasks[i].state = "aborted"]
    /\ UNCHANGED <<hashTest, logVars, variant, sources, tools, cat, supVars>>

BridgeNext ==
    \/ \E t \in BridgeTools : StartMcpLogStream(t)
    \/ \E t \in BridgeTools : StopMcpLogStream(t)
    \/ \E i \in 1..MaxBridgeCalls : StreamLogsReturns(i)
    \/ \E i \in 1..MaxBridgeCalls : StreamLogsCancelled(i)

\* the pure functions are idle, the bridge has no stream
InitPure == hashTest = IdleHash /\ bridge = IdleBridge

InitSup ==
    /\ processes = [t \in RowIds |-> 0]
    /\ procLock = "free"
    /\ children = [c \in ChildIds |-> NoChild]
    /\ childLock = [c \in ChildIds |-> "free"]
    /\ sup = [u \in SupTasks |-> IdleSup]
    /\ mon = [c \in ChildIds |-> IdleMon]
    /\ logs = [t \in RowIds |-> <<>>]
    /\ InitLog

\* the catalog: an empty mcp_tools table after startup
Init ==
    /\ variant \in {"backend", "tauri"}
    /\ sources = InitSources(variant)
    /\ tools = [id \in RowIds |-> NoRow]
    /\ cat = [k \in CatTasks |-> IdleCat]
    /\ InitSup
    /\ InitPure

Spec == Init /\ [][Next]_vars

\* the database is empty before startup
SrcInit ==
    /\ variant \in {"backend", "tauri"}
    /\ sources = [id \in SourceIds |-> NoSource]
    /\ tools = [id \in RowIds |-> NoRow]
    /\ cat = [k \in CatTasks |-> IdleCat]
    /\ InitSup
    /\ InitPure

SrcSpec == SrcInit /\ [][SrcNext]_vars

ConcSpec == Init /\ [][ConcNext]_vars

StoreSpec == Init /\ [][StoreNext]_vars

\* the supervisor: one imported tool (S1 of the scenarios), with or without
\* a command
ImportedRow(v, payload) ==
    LET value == build_config_json("alpha", payload) IN
    RowOf(v, [id |-> None, source_id |-> "s_local", identifier |-> None,
              name |-> "alpha", source_type |-> "local", status |-> "stopped",
              ping_ms |-> None, error |-> None,
              command |-> extract_tool_fields("alpha", payload).command,
              config_json |-> to_string(value),
              config_hash |-> compute_config_hash(v, value),
              pending_config_json |-> None, pending_config_hash |-> None,
              conflict_status |-> "none", is_read_only |-> FALSE])

SupInit ==
    /\ variant \in {"backend", "tauri"}
    /\ sources = InitSources(variant)
    /\ \E payload \in {[command |-> Some("echo")], [command |-> None]} :
          tools = [id \in RowIds |-> IF id = 1 THEN ImportedRow(variant, payload)
                                     ELSE NoRow]
    /\ cat = [k \in CatTasks |-> IdleCat]
    /\ InitSup
    /\ InitPure

SupSpec == SupInit /\ [][SupNext]_vars

\* scheduling of the supervisor: the runtime runs every task that can take
\* a step, and the tokio RwLock and Mutex grant waiters in FIFO order, so a
\* task waiting for a lock that is free again and again gets it.  Requests
\* of clients and the exit of a child are not forced.  The logs lock and the
\* broadcasters lock are held inside one step only: no await point lies
\* inside their critical sections.
SupStep(u) ==
    \/ StartBegin(u) \/ StartSetStarting(u) \/ StartSpawn(u) \/ StartSpawnFail(u)
    \/ StartSetHealthy(u) \/ StartEmitStarted(u) \/ StartSpawnMonitor(u)
    \/ StopRead(u) \/ StopNoHandle(u) \/ StopKill(u)
    \/ (\E ok \in BOOLEAN : StopKillDone(u, ok))
    \/ StopSetStopped(u) \/ StopEmit(u)

MonStep(c) ==
    MonitorObserve(c) \/ MonitorEmit(c) \/ MonitorSetStatus(c) \/ MonitorRemove(c)

SupFairness ==
    /\ \A u \in SupTasks : SF_vars(SupStep(u))
    /\ \A c \in ChildIds : SF_vars(MonStep(c))

SupFairSpec == SupInit /\ [][SupNext]_vars /\ SupFairness

\* start_tool: set_tool_status(Starting) returns an error (`?`): the error
\* is returned, the write lock dropped, nothing spawned
StartSetStartingFail(u) ==
    /\ sup[u].pc = "st_starting"
    /\ procLock' = "free"
    /\ sup' = [sup EXCEPT ![u].pc = "idle", ![u].result = "store_failed"]
    /\ UNCHANGED <<pureVars, logVars, variant, sources, tools, cat, processes,
                   children, childLock, mon, logs>>

\* start_tool: set_tool_status(Healthy) returns an error (`?`): the error
\* is returned after the handle was inserted and before spawn_monitor
StartSetHealthyFail(u) ==
    /\ sup[u].pc = "st_healthy"
    /\ sup' = [sup EXCEPT ![u].pc = "idle", ![u].result = "store_failed"]
    /\ UNCHANGED <<pureVars, logVars, variant, sources, tools, cat, processes,
                   procLock, children, childLock, mon, logs>>

\* the supervisor on a store whose status writes can fail
StoreFailNext ==
    \/ SupNext
    \/ \E u \in SupTasks : StartSetStartingFail(u)
    \/ \E u \in SupTasks : StartSetHealthyFail(u)

StoreFailSpec == SupInit /\ [][StoreFailNext]_vars

\* the row apply_config_payload inserts for a new entry of a URL source
RacedRow(v, name, payload) ==
    LET value == build_config_json(name, payload) IN
    RowOf(v, AcpRecord([IdleCat EXCEPT
              !.source = "s_extra", !.src_type = "url", !.src_ro = FALSE,
              !.name = name,
              !.command = extract_tool_fields(name, payload).command,
              !.config_json = to_string(value),
              !.config_hash = compute_config_hash(v, value),
              !.name_conflict = FALSE, !.existing = 0]))

\* a URL source after two imports of one entry each, alpha and beta, that
\* ran at the same time: both found no row to update and both inserted, so
\* the source has two rows (in the Tauri table both with identifier NULL)
PendInit ==
    /\ variant \in {"backend", "tauri"}
    /\ sources = [InitSources(variant) EXCEPT !["s_extra"] = SourceRow("url", FALSE)]
    /\ \E p \in Payloads, q \in Payloads :
          tools = [id \in RowIds |->
                      IF id = FirstOf(RowIds) THEN RacedRow(variant, "alpha", p)
                      ELSE IF id = FirstOf(RowIds \ {FirstOf(RowIds)})
                      THEN RacedRow(variant, "beta", q)
                      ELSE NoRow]
    /\ cat = [k \in CatTasks |-> IdleCat]
    /\ InitSup
    /\ InitPure

\* one client importing into that source, applying pending updates and
\* resolving conflicts
PendNext ==
    \/ /\ cat[SeqTask].calls < MaxSeqCalls
       /\ \/ \E m \in Manifests : CallImport(SeqTask, "s_extra", m)
          \/ \E t \in RowIds, op \in {"apply", "resolve"} :
                CallApplyPending(SeqTask, t, op)
          \/ \E t \in RowIds : ResolveKeep(SeqTask, t)
    \/ AcpFinish(SeqTask)
    \/ \E e \in cat[SeqTask].todo : AcpEntry(SeqTask, e)
    \/ AcpExisting(SeqTask)
    \/ AcpMark(SeqTask)
    \/ UpsertFindStep(SeqTask)
    \/ UpsertWriteStep(SeqTask)
    \/ ApplyReadPending(SeqTask)

PendSpec == PendInit /\ [][PendNext]_vars

\* the catalog and the supervisor together, on one imported tool
MixSpec == SupInit /\ [][MixNext]_vars

\* the env_config of a tool's config and the env the user has set
EnvConfigs ==
    {None,
     Some(<<[key |-> "API_KEY", required |-> TRUE], [key |-> "OPT", required |-> FALSE],
            [key |-> "", required |-> TRUE], [key |-> "TOKEN", required |-> TRUE]>>)}
Envs ==
    {None, Some([API_KEY |-> "k"]), Some([API_KEY |-> "", TOKEN |-> "t"]),
     Some([API_KEY |-> "k", TOKEN |-> "t"])}

\* the columns of a tool row the required-env check reads besides the
\* imported ones: the env_config array inside config_json, and env
WithEnv(row, env_config, env) ==
    [f \in DOMAIN row \union {"env_config", "env"} |->
        IF f = "env_config" THEN env_config
        ELSE IF f = "env" THEN env ELSE row[f]]

\* the supervisor with one imported tool that has a command, an env_config
\* or none, and an env
GateInit ==
    /\ variant \in {"backend", "tauri"}
    /\ sources = InitSources(variant)
    /\ \E env_config \in EnvConfigs, env \in Envs :
          tools = [id \in RowIds |->
                      IF id = 1
                      THEN WithEnv(ImportedRow(variant, [command |-> Some("echo")]),
                                   env_config, env)
                      ELSE NoRow]
    /\ cat = [k \in CatTasks |-> IdleCat]
    /\ InitSup
    /\ InitPure

GateSpec == GateInit /\ [][GateNext]_vars

\* the config hash run on pairs of JSON texts, in a build that links
\* serde_json with or without preserve_order
HashInit ==
    /\ variant \in {"backend", "tauri"}
    /\ sources = InitSources(variant)
    /\ tools = [id \in RowIds |-> NoRow]
    /\ cat = [k \in CatTasks |-> IdleCat]
    /\ InitSup
    /\ \E preserve_order \in BOOLEAN :
          hashTest = [IdleHash EXCEPT !.preserve_order = preserve_order]
    /\ bridge = IdleBridge

HashSpec == HashInit /\ [][HashNext]_vars

\* the log-stream bridge of the Tauri host
BridgeInit == Init /\ variant = "tauri"

BridgeSpec == BridgeInit /\ [][BridgeNext]_vars

\* the log service of the manager: emitters, stream clients, the rings
LogSpec == Init /\ [][LogNext]_vars

TailSpec == Init /\ [][TailNext]_vars

\* a started tool: its reader tasks wait on the pipes
StreamInit ==
    /\ variant \in {"backend", "tauri"}
    /\ sources = InitSources(variant)
    /\ tools = [id \in RowIds |-> IF id = StreamTool
                                   THEN ImportedRow(variant, [command |-> Some("echo")])
                                   ELSE NoRow]
    /\ cat = [k \in CatTasks |-> IdleCat]
    /\ processes = [t \in RowIds |-> 0]
    /\ procLock = "free"
    /\ children = [c \in ChildIds |-> NoChild]
    /\ childLock = [c \in ChildIds |-> "free"]
    /\ sup = [u \in SupTasks |-> IdleSup]
    /\ mon = [c \in ChildIds |-> IdleMon]
    /\ logs = [t \in RowIds |-> <<>>]
    /\ broadcasters = [t \in RowIds |-> variant = "backend" /\ t = StreamTool]
    /\ channel = [t \in RowIds |-> <<>>]
    /\ receivers = [r \in LogClients |-> NoReceiver]
    /\ emitters = [e \in StreamTasks |-> IdleEmitter]
    /\ emitted = [t \in RowIds |-> <<>>]
    /\ InitPure

StreamSpec == StreamInit /\ [][StreamNext]_vars

-----------------------------------------------------------------------------
(* Properties of the process supervisor, checked under SupSpec *)

\* the children of tool t whose handle the supervisor still holds: spawned,
\* and their exit monitor has not yet removed the handle
Supervised(t) ==
    {c \in ChildIds : /\ children[c].state # "unborn"
                      /\ children[c].tool = t
                      /\ mon[c].pc # "done"}

\* C1: under every interleaving of start_tool calls a tool has at most one
\* supervised child, that child is the one the process map holds, and a
\* start that returned "already running" spawned no child.
C1_AtMostOneChildPerTool ==
    /\ \A t \in RowIds :
          /\ Cardinality(Supervised(t)) <= 1
          /\ \A c \in Supervised(t) : processes[t] = c
    /\ \A u \in SupTasks :
          sup[u].result = "already_running" => sup[u].child = 0

\* C1 witness: two starts of the same tool, one spawned the child and set
\* up its monitor, the other was turned away while the handle was present
C1_Witness ==
    \E u, w \in SupTasks :
        /\ u # w
        /\ sup[u].tool = sup[w].tool
        /\ sup[u].pc = "idle" /\ sup[u].result = "started"
        /\ sup[w].pc = "idle" /\ sup[w].result = "already_running"
        /\ processes[sup[u].tool] = sup[u].child
        /\ children[sup[u].child].state = "running"

\* C2: a start, then a stop that killed the running child, and the child's
\* exit monitor, all finished and nothing else was asked of the supervisor:
\* the persisted status is stopped.
C2_StopConvergesOnStopped ==
    \A u, w \in SupTasks : \A c \in ChildIds :
        (/\ u # w
         /\ sup[u].pc = "idle" /\ sup[u].result = "started"
         /\ sup[u].calls = 1 /\ sup[u].child = c
         /\ sup[w].pc = "idle" /\ sup[w].result = "stopped_running"
         /\ sup[w].calls = 1 /\ sup[w].child = c
         /\ mon[c].pc = "done")
        => tools[children[c].tool].status = "stopped"

\* C3: the exit monitor that observed exit code N writes stopped when N = 0
\* and crashed otherwise, with the non-empty message "process exited with
\* code N" as the error.
C3_MonitorMapsExitCode ==
    [][\A c \in ChildIds :
          (mon[c].pc = "m_set" /\ mon'[c].pc = "m_remove") =>
             LET t == children[c].tool
                 N == mon[c].code
             IN /\ tools'[t].status = IF N = 0 THEN "stopped" ELSE "crashed"
                /\ N # 0 => /\ tools'[t].error = Some(ExitMessage(N))
                            /\ ExitMessage(N) # ""]_vars

\* C3 witness: the monitor has stored crashed and the message for code 7
C3_Witness ==
    \E c \in ChildIds :
        /\ mon[c].pc = "m_remove"
        /\ mon[c].code = 7
        /\ tools[children[c].tool].status = "crashed"
        /\ tools[children[c].tool].error = Some("process exited with code 7")

-----------------------------------------------------------------------------
(* Properties of the catalog, checked under Spec, ConcSpec and StoreSpec *)

\* the source is read-only: its kind is not local, or it is flagged so
ReadOnlySource(src) ==
    /\ sources[src] # NoSource
    /\ sources[src].source_type # "local" \/ sources[src].is_read_only

\* task k has just finished the manifest entry (or subscription) of an
\* existing tool whose config_hash differed from the entry's hash
DivergedEntryDone(k) ==
    /\ cat[k].pc \in {"acp_next", "cs_next"}
    /\ cat[k].existing # 0
    /\ cat[k].ex # NoRow
    /\ cat[k].ex.config_hash # cat[k].config_hash

\* C4: once a sync or an import has gone through an entry that hashes
\* differently from the existing tool of a read-only source, config_json and
\* config_hash are what they were, the pending pair is the entry's config
\* and hash, and conflict_status is conflict if has_name_conflict holds and
\* update_available otherwise.
C4_ReadOnlyDivergenceIsPending ==
    \A k \in CatTasks :
        (DivergedEntryDone(k) /\ ReadOnlySource(cat[k].source)) =>
            LET row == tools[cat[k].existing] IN
            /\ row.config_json = cat[k].ex.config_json
            /\ row.config_hash = cat[k].ex.config_hash
            /\ row.pending_config_json = Some(cat[k].config_json)
            /\ row.pending_config_hash = Some(cat[k].config_hash)
            /\ row.conflict_status =
                  IF has_name_conflict(tools, cat[k].name, cat[k].source)
                  THEN "conflict" ELSE "update_available"

\* C4 witness: a sync of a read-only source left a diverging entry pending
C4_Witness ==
    \E k \in CatTasks :
        /\ DivergedEntryDone(k)
        /\ ReadOnlySource(cat[k].source)
        /\ cat[k].op = "sync"
        /\ tools[cat[k].existing].pending_config_hash = Some(cat[k].config_hash)
        /\ tools[cat[k].existing].conflict_status = "update_available"

UpsertWrites(k) ==
    /\ cat[k].pc \in {"acp_write", "ap_write", "cs_write", "up_write"}
    /\ cat'[k].pc # cat[k].pc

\* C6: upsert_tool updates a row only if the row matches the record's
\* (source_id, identifier) when the record has an identifier and its
\* (source_id, name) otherwise; an import that returned Ok leaves one row
\* for each name of its manifest.
C6_UpsertMatchesOwnRow ==
    /\ [][\A k \in CatTasks :
            (UpsertWrites(k) /\ cat[k].found # 0) =>
               LET rec == TaskRecord(variant, cat[k])
                   row == tools[cat[k].found]
               IN /\ row.source_id = rec.source_id
                  /\ IF IsSome(rec.identifier)
                     THEN row.identifier = rec.identifier
                     ELSE row.name = rec.name]_vars
    /\ [](\A k \in CatTasks :
            (cat[k].pc = "idle" /\ cat[k].op = "import" /\ cat[k].result = "ok") =>
               \A n \in cat[k].seen :
                  get_tool_by_source_name(tools, cat[k].source, n) # 0)

\* C7: a second upsert_tool with the record of the call before it succeeds,
\* changes no column of any row, and leaves exactly one row for the record's
\* (source_id, name).
C7_UpsertTwiceIsOnce ==
    [][\A k \in CatTasks :
          (cat[k].pc = "up_write" /\ cat'[k].pc = "idle" /\ cat[k].last = cat[k].rec) =>
             /\ cat'[k].result = "ok"
             /\ tools' = tools
             /\ Cardinality({id \in Rows(tools') :
                               /\ tools'[id].source_id = cat[k].rec.source_id
                               /\ tools'[id].name = cat[k].rec.name}) = 1]_vars

\* C7 witness: the second call with the same record has located the row the
\* first call wrote
C7_Witness ==
    \E k \in CatTasks :
        /\ cat[k].pc = "up_write"
        /\ cat[k].last = cat[k].rec
        /\ cat[k].found # 0
        /\ tools[cat[k].found] = RowOf(variant, cat[k].rec)

\* C8: in every reachable state, whatever the interleaving of requests, the
\* pending pair of each tool is null together or set together, and a set
\* pending_config_hash differs from config_hash.
C8_PendingPairDiffers ==
    \A t \in Rows(tools) :
        /\ IsSome(tools[t].pending_config_json) <=> IsSome(tools[t].pending_config_hash)
        /\ IsSome(tools[t].pending_config_hash) =>
              Unwrap(tools[t].pending_config_hash) # tools[t].config_hash

\* C9: in every reachable state a tool whose conflict_status is none has no
\* pending config.
C9_NoneHasNoPending ==
    \A t \in Rows(tools) :
        tools[t].conflict_status = "none" =>
            /\ tools[t].pending_config_json = None
            /\ tools[t].pending_config_hash = None

\* C9 witness: a tool was marked pending and an apply-pending brought it
\* back to conflict_status none
C9_Witness ==
    \E k \in CatTasks :
        /\ cat[k].pc = "idle" /\ cat[k].op = "apply" /\ cat[k].result = "ok"
        /\ tools[cat[k].tool].conflict_status = "none"
        /\ tools[cat[k].tool].pending_config_json = None

\* C10: when a cloud subscription sync has returned Ok, every tool of the
\* cloud source that has an identifier outside the sync's list is orphaned
\* with the error "cloud subscription removed"; and no step of the removal
\* sweep changes a tool whose identifier is in the list.
C10_RemovedSubscriptionsOrphaned ==
    /\ [](\A k \in CatTasks :
            (cat[k].pc = "idle" /\ cat[k].op = "cloud" /\ cat[k].result = "ok") =>
               \A t \in Rows(tools) :
                  (/\ tools[t].source_id = cat[k].source
                   /\ IsSome(tools[t].identifier)
                   /\ Unwrap(tools[t].identifier) \notin cat[k].seen)
                  => /\ tools[t].status = "orphaned"
                     /\ tools[t].error = Some("cloud subscription removed"))
    /\ [][\A k \in CatTasks :
            (cat[k].pc = "cs_sweep" /\ cat'[k] # cat[k]) =>
               \A t \in Rows(tools) :
                  (/\ IsSome(tools[t].identifier)
                   /\ Unwrap(tools[t].identifier) \in cat[k].seen)
                  => tools'[t] = tools[t]]_vars

\* C10 witness: a sync returned Ok with one subscription kept and the tool
\* of a dropped one orphaned
C10_Witness ==
    \E k \in CatTasks : \E t, o \in Rows(tools) :
        /\ cat[k].pc = "idle" /\ cat[k].op = "cloud" /\ cat[k].result = "ok"
        /\ tools[t].source_id = cat[k].source
        /\ tools[o].source_id = cat[k].source
        /\ IsSome(tools[t].identifier) /\ Unwrap(tools[t].identifier) \notin cat[k].seen
        /\ IsSome(tools[o].identifier) /\ Unwrap(tools[o].identifier) \in cat[k].seen
        /\ tools[t].status = "orphaned"
        /\ tools[o].status # "orphaned"

-----------------------------------------------------------------------------
(* Properties of the log service, checked under LogSpec *)

\* the receivers subscribed to tool t that have not been dropped
OpenOn(t) == {r \in LogClients : receivers[r].state = "open" /\ receivers[r].tool = t}

\* what receiver r has not yet taken from its channel
Outstanding(r) ==
    SubSeq(channel[receivers[r].tool], receivers[r].next + 1,
           Len(channel[receivers[r].tool]))

C11_NothingLost ==
    \A r \in LogClients :
        receivers[r].state = "open" /\ ~receivers[r].lagged =>
            /\ receivers[r].next <= Len(channel[receivers[r].tool])
            /\ receivers[r].got \o Outstanding(r) =
                   SubSeq(channel[receivers[r].tool], receivers[r].from + 1,
                          Len(channel[receivers[r].tool]))

C11_EmitReachesChannel ==
    /\ \A e \in EmitTasks :
          (/\ emitters[e].pc = "send"
           /\ emitters'[e].pc = "idle"
           /\ OpenOn(emitters[e].tool) # {})
          => channel'[emitters[e].tool] =
                 Append(channel[emitters[e].tool], emitters[e].entry)
    /\ \A r \in LogClients :
          receivers'[r].lagged /\ ~receivers[r].lagged =>
              Len(Outstanding(r)) > BroadcastCapacity

\* C11: once subscribe_logs has returned a receiver for a tool, every entry
\* emit_log sends for that tool afterwards (a reader's line or an event looked
\* up through the broadcasters map) is appended to the receiver's channel, and
\* a receiver delivers, in order and without a gap, everything sent since it
\* subscribed, unless more than the channel capacity was outstanding.
C11_SubscriberGetsEveryEntry ==
    []C11_NothingLost /\ [][C11_EmitReachesChannel]_vars

\* a subscriber that never lagged has been delivered a line and an event
C11_Witness ==
    \E r \in LogClients :
        /\ receivers[r].state = "open"
        /\ ~receivers[r].lagged
        /\ \E i, j \in 1..Len(receivers[r].got) :
              /\ receivers[r].got[i].stream = "stdout"
              /\ receivers[r].got[j].stream = "event"

\* the last min(Len(entries), k) elements of a sequence
LastK(entries, k) ==
    IF Len(entries) <= k THEN entries
    ELSE SubSeq(entries, Len(entries) - k + 1, Len(entries))

\* C12: after n pushes into a tool's ring of capacity k the ring holds the
\* last min(n, k) pushed entries in push order, never more than k, and
\* logs(tool_id) returns them oldest first.
C12_RingKeepsLatest ==
    \A t \in RowIds :
        /\ Len(logs[t]) <= LogBufferSize
        /\ logs_of(logs, t) = LastK(emitted[t], LogBufferSize)

\* a ring that has evicted its oldest entry
C12_Witness ==
    \E t \in LogTools :
        /\ Len(emitted[t]) > LogBufferSize
        /\ Len(logs[t]) = LogBufferSize

-----------------------------------------------------------------------------
(* Properties of the config hash, checked under HashSpec *)

\* a JSON text without the order of its members: an object as the set of
\* its members, an array as the sequence of its elements
RECURSIVE Unordered(_)
Unordered(text) ==
    IF "obj" \in DOMAIN text
    THEN [obj |-> {<<text.obj[i][1], Unordered(text.obj[i][2])>> : i \in 1..Len(text.obj)}]
    ELSE IF "arr" \in DOMAIN text
    THEN [arr |-> [i \in 1..Len(text.arr) |-> Unordered(text.arr[i])]]
    ELSE text

C13_CanonicalHashIgnoresKeyOrder ==
    hashTest.pc = "hashed" =>
        /\ (variant = "backend" \/ ~hashTest.preserve_order) =>
               (Unordered(hashTest.x_text) = Unordered(hashTest.y_text)
                   <=> hashTest.hashes[1] = hashTest.hashes[2])
        /\ Unordered(hashTest.x_text) # Unordered(hashTest.y_text) =>
               hashTest.hashes[1] # hashTest.hashes[2]

\* the backend has hashed two texts that differ in nested key order, in a
\* build that keeps insertion order
C13_Witness ==
    /\ hashTest.pc = "hashed"
    /\ variant = "backend"
    /\ hashTest.preserve_order
    /\ hashTest.x # hashTest.y
    /\ Unordered(hashTest.x_text) = Unordered(hashTest.y_text)

-----------------------------------------------------------------------------
(* Properties of the catalog queries and of sync, checked under Spec *)

\* the tools named n that live in a source of kind local other than s,
\* the kind read from the tool's source row
LocalNamesakes(n, s) ==
    {id \in Rows(tools) : /\ tools[id].name = n
                          /\ tools[id].source_id # s
                          /\ sources[tools[id].source_id] # NoSource
                          /\ sources[tools[id].source_id].source_type = "local"}

\* C14: has_name_conflict(n, s) is true exactly when the catalog holds a tool
\* named n whose source is of kind local and is not s; tools of non-local
\* sources and tools of s itself never make it true.
C14_NameConflictIffOtherLocal ==
    \A n \in Names, s \in SourceIds :
        has_name_conflict(tools, n, s) <=> LocalNamesakes(n, s) # {}

\* one name in a local and in a non-local source: the local tool conflicts
\* with the non-local source's name, not the other way round
C14_Witness ==
    \E n \in Names, s1, s2 \in SourceIds :
        /\ s1 # s2
        /\ sources[s1] # NoSource /\ sources[s1].source_type = "local"
        /\ sources[s2] # NoSource /\ sources[s2].source_type # "local"
        /\ get_tool_by_source_name(tools, s1, n) # 0
        /\ get_tool_by_source_name(tools, s2, n) # 0
        /\ has_name_conflict(tools, n, s2)
        /\ ~has_name_conflict(tools, n, s1)

\* request k is a sync that returns in this step
SyncReturns(k) ==
    /\ cat[k].op = "sync"
    /\ cat[k].pc # "idle"
    /\ cat'[k].pc = "idle"

C15_SyncingWhileFetching ==
    \A k \in CatTasks :
        cat[k].pc = "sync_fetch" => sources[cat[k].source].status = "syncing"

C15_StatusOnReturn ==
    \A k \in CatTasks :
        SyncReturns(k) =>
            /\ cat'[k].result \in {"ok", "error"}
            /\ cat'[k].result = "ok" =>
                   /\ sources'[cat[k].source].status = "active"
                   /\ sources'[cat[k].source].last_synced_at = Some("now")
            /\ cat'[k].result = "error" =>
                   sources'[cat[k].source].status = "error"

\* C15: a sync request of an existing source has set the source to syncing
\* when it fetches; when it returns success the source is active with
\* last_synced_at set to the time of completion, and when fetching or
\* reconciling failed the source is in status error as the error returns.
C15_SyncTracksSourceStatus ==
    []C15_SyncingWhileFetching /\ [][C15_StatusOnReturn]_vars

\* a sync whose reconciliation failed after its first entry has returned
C15_Witness ==
    \E k \in CatTasks :
        /\ cat[k].op = "sync"
        /\ cat[k].pc = "idle"
        /\ cat[k].result = "error"
        /\ cat[k].seen # {}
        /\ sources[cat[k].source].status = "error"
        /\ \E id \in Rows(tools) : tools[id].source_id = cat[k].source

-----------------------------------------------------------------------------
(* Properties of starting and stopping, checked under GateSpec *)

\* a start request of client u returns in this step
StartReturns(u) ==
    /\ sup[u].pc \in {"st_gate", "st_begin", "st_spawn", "st_monitor"}
    /\ sup'[u].pc = "idle"

\* the keys a missing-env message names
KeysNamedIn(message) ==
    CASE message = "missing required env: API_KEY" -> {"API_KEY"}
      [] message = "missing required env: TOKEN" -> {"TOKEN"}
      [] message = "missing required env: API_KEY, TOKEN" -> {"API_KEY", "TOKEN"}
      [] OTHER -> {}

\* the required, non-empty keys of the tool's env_config without a
\* non-empty value in its env
RequiredUnset(tool) ==
    IF "env_config" \in DOMAIN tool /\ IsSome(tool.env_config)
    THEN {Unwrap(tool.env_config)[i].key : i \in
             {j \in 1..Len(Unwrap(tool.env_config)) :
                 /\ Unwrap(tool.env_config)[j].required
                 /\ Unwrap(tool.env_config)[j].key # ""
                 /\ ~(/\ IsSome(tool.env)
                      /\ Unwrap(tool.env_config)[j].key \in DOMAIN Unwrap(tool.env)
                      /\ Unwrap(tool.env)[Unwrap(tool.env_config)[j].key] # "")}}
    ELSE {}

\* a start of a tool with required env unset has failed without a child or
\* a handle and left the tool pending with an error naming the unset keys
RefusedForEnv(u) ==
    LET t == sup[u].tool IN
    /\ sup'[u].result = "missing_env"
    /\ tools'[t].status = "pending"
    /\ IsSome(tools'[t].error)
    /\ KeysNamedIn(Unwrap(tools'[t].error)) = RequiredUnset(tools[t])
    /\ processes'[t] = 0
    /\ \A c \in ChildIds : children'[c].tool # t

\* C16: starting a tool whose env_config has a required entry with a
\* non-empty key and no non-empty value in env returns failure, spawns no
\* child, records no handle, and leaves the tool pending with an error that
\* names every such key.
C16_StartRefusesMissingEnv ==
    [][\A u \in SupTasks :
          StartReturns(u) /\ RequiredUnset(tools[sup[u].tool]) # {} => RefusedForEnv(u)]_vars

\* what holds of C16: the Tauri command refuses the start in that way
C16_TauriStartRefusesMissingEnv ==
    [][\A u \in SupTasks :
          (/\ variant = "tauri"
           /\ StartReturns(u)
           /\ RequiredUnset(tools[sup[u].tool]) # {}) => RefusedForEnv(u)]_vars

\* the Tauri command has refused a start for two unset keys
C16_Witness ==
    \E u \in SupTasks :
        /\ sup[u].pc = "idle"
        /\ sup[u].result = "missing_env"
        /\ tools[sup[u].tool].status = "pending"
        /\ RequiredUnset(tools[sup[u].tool]) = {"API_KEY", "TOKEN"}

\* client u's stop request finds no handle / returns from the no-handle arm
StopFindsNoHandle(u) ==
    /\ sup[u].pc = "sp_read"
    /\ sup'[u].pc # "sp_read"
    /\ processes[sup[u].tool] = 0

StopNoHandleReturns(u) ==
    /\ sup[u].pc = "sp_nohandle"
    /\ sup'[u].pc = "idle"

\* C17: stop_tool on a tool without a process handle kills nothing, emits no
\* log entry, sets the status to stopped (ping and error cleared) and returns
\* success; the row it writes does not depend on how often it ran before.
C17_StopWithoutHandleIsIdempotent ==
    [][\A u \in SupTasks :
          /\ StopFindsNoHandle(u) =>
                /\ sup'[u].pc = "sp_nohandle"
                /\ children' = children /\ logs' = logs /\ channel' = channel
          /\ StopNoHandleReturns(u) =>
                /\ sup'[u].result = "stopped_nohandle"
                /\ tools'[sup[u].tool] =
                       [tools[sup[u].tool] EXCEPT !.status = "stopped",
                                                  !.ping_ms = None, !.error = None]
                /\ tools[sup[u].tool].status = "stopped"
                   /\ tools[sup[u].tool].error = None => tools' = tools
                /\ children' = children /\ logs' = logs /\ channel' = channel
                /\ processes' = processes]_vars

\* two stop requests without a handle have returned for a tool that had
\* crashed before
C17_Witness ==
    \E t \in RowIds :
        /\ \A u \in SupTasks :
              /\ sup[u].pc = "idle"
              /\ sup[u].result = "stopped_nohandle"
              /\ sup[u].tool = t
        /\ tools[t].status = "stopped"
        /\ tools[t].error = None
        /\ \E c \in ChildIds : children[c].tool = t /\ children[c].code = 7
        /\ processes[t] = 0

\* request k, reconciling an entry for which it found no tool in the source,
\* performs the write of upsert_tool in this step
WritesNewEntry(k) ==
    /\ cat[k].pc \in {"acp_write", "cs_write"}
    /\ cat[k].existing = 0
    /\ cat'[k].pc # cat[k].pc

\* row id holds, after the step, a new tool made from k's entry
InsertedFor(k, id) ==
    /\ tools[id] = NoRow
    /\ tools'[id] # NoRow
    /\ \A o \in RowIds \ {id} : tools'[o] = tools[o]
    /\ tools'[id].name = cat[k].name
    /\ tools'[id].source_id = cat[k].source
    /\ tools'[id].config_hash = cat[k].config_hash
    /\ tools'[id].pending_config_json = None
    /\ tools'[id].pending_config_hash = None
    /\ tools'[id].status = IF cat[k].pc = "cs_write" THEN "pending" ELSE "stopped"
    /\ tools'[id].conflict_status =
           IF LocalNamesakes(cat[k].name, cat[k].source) # {} THEN "conflict" ELSE "none"

\* C18: for a manifest entry (or cloud subscription) without an existing tool
\* in its source, sync/import stores a new row: pending config null, status
\* stopped (pending for a subscription), conflict_status conflict exactly
\* when another local-kind source has a tool of that name; the other rows
\* stay as they are.
C18_NewEntryIsInserted ==
    [][\A k \in CatTasks : WritesNewEntry(k) => \E id \in RowIds : InsertedFor(k, id)]_vars

\* what holds of C18: the new row is stored when no tool of the source has
\* the entry's name and, for a manifest entry in the Tauri host, every tool
\* of the source has an identifier
C18_NewEntryIsInsertedWhereNoRowMatches ==
    [][\A k \in CatTasks :
          (/\ WritesNewEntry(k)
           /\ \A o \in Rows(tools) :
                 tools[o].source_id = cat[k].source =>
                     /\ tools[o].name # cat[k].name
                     /\ variant = "tauri" /\ cat[k].pc = "acp_write" =>
                            IsSome(tools[o].identifier))
          => \E id \in RowIds : InsertedFor(k, id)]_vars

\* a tool was inserted with conflict_status conflict
C18_Witness ==
    \E id \in Rows(tools) :
        /\ tools[id].conflict_status = "conflict"
        /\ tools[id].status = "stopped"
        /\ tools[id].pending_config_json = None
        /\ LocalNamesakes(tools[id].name, tools[id].source_id) # {}

\* the tool request k finds for its entry: by (source, name) for a manifest
\* entry, by (source, identifier) for a cloud subscription; 0 if none
ExistingFor(k) ==
    IF cat[k].pc = "acp_existing"
    THEN get_tool_by_source_name(tools, cat[k].source, cat[k].name)
    ELSE get_tool_by_source_identifier(tools, cat[k].source, Unwrap(cat[k].identifier))

\* request k looks up the existing tool of its entry in this step and the
\* entry's hash is the tool's config_hash
FindsEqualHash(k) ==
    /\ cat[k].pc \in {"acp_existing", "cs_existing"}
    /\ cat'[k] # cat[k]
    /\ ExistingFor(k) # 0
    /\ tools[ExistingFor(k)].config_hash = cat[k].config_hash

\* C19: an entry whose hash equals the config_hash of its existing tool is
\* passed over: the request goes on to the next entry without a write, the
\* rows are the same in number and every column of every row is unchanged.
C19_EqualHashWritesNothing ==
    [][\A k \in CatTasks :
          FindsEqualHash(k) =>
              /\ tools' = tools
              /\ cat'[k].pc = (IF cat[k].pc = "acp_existing" THEN "acp_next" ELSE "cs_next")
              /\ cat'[k].existing = ExistingFor(k)]_vars

\* a manifest entry was passed over as unchanged, with the tool as it was found
C19_Witness ==
    \E k \in CatTasks :
        /\ cat[k].pc = "acp_next"
        /\ cat[k].existing # 0
        /\ cat[k].ex.config_hash = cat[k].config_hash
        /\ tools[cat[k].existing] = cat[k].ex

\* request k returns in this step
Returns(k) ==
    /\ cat'[k].pc = "idle"
    /\ cat'[k] # cat[k]

\* resolve_mcp_conflict "keep" returns: the tool's pending config and pending
\* hash are null and its conflict_status none, its other columns and the
\* other tools are as before; for an unknown tool nothing changes
KeepEffect(k) ==
    LET t == cat'[k].tool IN
    IF tools[t] = NoRow
    THEN tools' = tools /\ cat'[k].result = "not_found"
    ELSE /\ cat'[k].result = "ok"
         /\ tools'[t].pending_config_json = None
         /\ tools'[t].pending_config_hash = None
         /\ tools'[t].conflict_status = "none"
         /\ tools'[t].config_json = tools[t].config_json
         /\ tools'[t].config_hash = tools[t].config_hash
         /\ tools'[t] = [tools[t] EXCEPT !.pending_config_json = None,
                                         !.pending_config_hash = None,
                                         !.conflict_status = "none"]
         /\ \A o \in RowIds \ {t} : tools'[o] = tools[o]

\* the request returns with the table and the result of apply_pending_update
UpdateEffect(k) ==
    LET r == apply_pending_update(variant, tools, cat'[k].tool) IN
    /\ tools' = r.tbl
    /\ cat'[k].result = r.result

\* C20: resolve_mcp_conflict "keep" nulls the pending config and hash and sets
\* conflict_status none, leaving config_json and config_hash; "update" has
\* the effect and the result of apply-pending; any other action is refused
\* with an error and no tool changes.
C20_ResolveConflict ==
    [][\A k \in CatTasks :
          Returns(k) =>
              /\ cat'[k].op = "keep" => KeepEffect(k)
              /\ cat'[k].op \in {"apply", "resolve"}
                     /\ cat'[k].result # "invalid_action" => UpdateEffect(k)
              /\ cat'[k].result = "invalid_action" =>
                     /\ cat'[k].op = "resolve"
                     /\ tools' = tools]_vars

\* "keep" has returned for a tool of a read-only source, now without
\* pending config
C20_Witness ==
    \E k \in CatTasks :
        /\ cat[k].op = "keep"
        /\ cat[k].result = "ok"
        /\ cat[k].calls = MaxSeqCalls
        /\ tools[cat[k].tool].is_read_only
        /\ tools[cat[k].tool].pending_config_json = None
        /\ tools[cat[k].tool].conflict_status = "none"

\* C21: once startup has provisioned them, the catalog holds exactly one
\* source of kind local and at most one of kind cloud, whatever requests
\* (create source, ensure_local_source, ensure_cloud_source) follow.
C21_OneLocalAtMostOneCloud ==
    StartupDone =>
        /\ Cardinality(SourcesOfType(sources, "local")) = 1
        /\ Cardinality(SourcesOfType(sources, "cloud")) <= 1

\* what holds of C21: ensure_*_source called when a source of the kind
\* exists returns a source of that kind and inserts nothing
C21_EnsureAgainInsertsNothing ==
    [][\A k \in CatTasks :
          (/\ cat[k].pc = "ens_find"
           /\ cat'[k] # cat[k]
           /\ SourcesOfType(sources, cat[k].src_type) # {})
          => /\ sources' = sources
             /\ cat'[k].pc = "idle"
             /\ cat'[k].source \in SourcesOfType(sources, cat[k].src_type)]_vars

\* the rows of a source under a name
RowsNamed(tbl, source_id, name) ==
    {id \in Rows(tbl) : tbl[id].source_id = source_id /\ tbl[id].name = name}

\* the write of upsert_tool by request k, in this step, would leave a
\* second row under a (source_id, name) another row has
WouldDuplicate(k) ==
    /\ cat[k].pc \in {"acp_write", "ap_write", "cs_write", "up_write"}
    /\ cat'[k] # cat[k]
    /\ LET rec == TaskRecord(variant, cat[k])
           own == IF cat[k].found # 0 THEN {cat[k].found} ELSE {}
       IN RowsNamed(tools, rec.source_id, rec.name) \ own # {}

C22_NoTwoRowsPerName ==
    \A a, b \in Rows(tools) :
        (tools[a].source_id = tools[b].source_id /\ tools[a].name = tools[b].name)
            => a = b

C22_DuplicateWriteFails ==
    \A k \in CatTasks :
        WouldDuplicate(k) =>
            /\ tools' = tools
            /\ cat'[k].pc \in {"idle", "sync_fail"}
            /\ cat'[k].pc = "idle" => cat'[k].result = "error"

\* C22: no two tool rows ever share (source_id, name), concurrent upserts of
\* one key included; a sync or import whose write would store a second row
\* under an existing (source_id, name) fails and stores nothing.
C22_NameUniquePerSource ==
    []C22_NoTwoRowsPerName /\ [][C22_DuplicateWriteFails]_vars

\* both clients reconciled the same name into the same source; one of them
\* failed on the index and the row of the other is there
C22_Witness ==
    \E k, j \in CatTasks :
        /\ k # j
        /\ cat[k].result = "error" /\ cat[k].op \in {"import", "cloud"}
        /\ cat[j].result = "ok" /\ cat[j].op = cat[k].op
        /\ cat[j].source = cat[k].source
        /\ cat[k].seen # {} /\ cat[k].seen = cat[j].seen
        /\ \E id \in Rows(tools) : tools[id].source_id = cat[k].source

\* how often x occurs in a sequence
Count(x, seq) == Cardinality({i \in 1..Len(seq) : seq[i] = x})

\* entries of r's tool pushed into the ring after r took its snapshot
PushedAfterSnapshot(r) ==
    SubSeq(emitted[receivers[r].tool], receivers[r].snap_at + 1,
           Len(emitted[receivers[r].tool]))

\* emitters that have pushed x into the ring of tool t and not yet sent it
Sending(t, x) ==
    {e \in EmitTasks : emitters[e].pc = "send" /\ emitters[e].tool = t
                                               /\ emitters[e].entry = x}

\* a client that subscribed, took the snapshot and has not lagged
Tailing(r) ==
    /\ receivers[r].state = "open"
    /\ receivers[r].snapped
    /\ ~receivers[r].lagged
    /\ Len(Outstanding(r)) <= BroadcastCapacity

\* C23: for a client that subscribes and then takes the snapshot, the
\* snapshot holds the entries pushed before it that the ring still had (the
\* latest LogBufferSize of them), and every entry pushed after it has been
\* delivered on the subscription, is waiting on the channel or is about to
\* be sent, as long as the client has not lagged; for every client alike.
C23_SubscribeThenSnapshotMissesNothing ==
    \A r \in LogClients :
        Tailing(r) =>
            /\ receivers[r].snap =
                   LastK(SubSeq(emitted[receivers[r].tool], 1, receivers[r].snap_at),
                         LogBufferSize)
            /\ \A e \in EmitTasks : \A x \in EmitInputs(e) :
                   Count(x, PushedAfterSnapshot(r)) <=
                       Count(x, receivers[r].got \o Outstanding(r))
                       + Cardinality(Sending(receivers[r].tool, x))

\* two clients tail one tool; both took the snapshot, an entry pushed
\* before it is in the snapshot and one pushed after it was delivered
C23_Witness ==
    \E r, q \in LogClients :
        /\ r # q
        /\ Tailing(r) /\ Tailing(q)
        /\ receivers[r].tool = receivers[q].tool
        /\ receivers[r].snap # <<>>
        /\ PushedAfterSnapshot(r) # <<>>
        /\ Len(receivers[r].got) = Len(PushedAfterSnapshot(r))
        /\ receivers[r].from = Len(channel[receivers[r].tool]) - Len(receivers[r].got)

\* stop_tool, having found and killed the handle's child, returns Ok
StopReturnsOk(u) ==
    /\ sup[u].pc = "sp_emit"
    /\ sup'[u].pc = "idle"

\* C24: when stop_tool returns success for a tool that had a handle, the
\* process map holds no handle for the tool (so that a start issued next is
\* not rejected as already running).
C24_StopRemovesHandle ==
    [][\A u \in SupTasks :
          StopReturnsOk(u) => ~ContainsKey(processes', sup[u].tool)]_vars

\* what holds of C24: the exit monitor, having observed the termination,
\* leaves the process map without a handle for the tool
C24_MonitorRemovesHandle ==
    [][\A c \in ChildIds :
          (mon[c].pc = "m_remove" /\ mon'[c].pc = "done")
              => ~ContainsKey(processes', children[c].tool)]_vars

\* request k applies, in this step, the in-place update of the existing
\* tool of a writable local source
UpdatesInPlace(k) ==
    /\ cat[k].pc = "acp_write"
    /\ cat'[k] # cat[k]
    /\ cat[k].existing # 0
    /\ cat[k].found = cat[k].existing
    /\ ~SourceReadOnly(cat[k].src_type, cat[k].src_ro)
    /\ tools' # tools

\* the columns the in-place update replaces
ReplacesConfig(k) ==
    LET row == tools'[cat[k].existing] IN
    /\ row.config_json = cat[k].config_json
    /\ row.config_hash = cat[k].config_hash
    /\ row.pending_config_json = None
    /\ row.pending_config_hash = None
    /\ row.conflict_status = (IF cat[k].name_conflict THEN "conflict" ELSE "none")

\* C25: the in-place update of an existing tool of a writable local source
\* replaces config and hash, nulls the pending config, sets conflict_status
\* by name_conflict, and leaves status, ping_ms, error and identifier as
\* they are in the row when the write is applied, whatever the supervisor
\* wrote to the row while the sync was under way.
C25_InPlaceUpdateKeepsRuntimeFields ==
    [][\A k \in CatTasks :
          UpdatesInPlace(k) =>
              /\ ReplacesConfig(k)
              /\ tools'[cat[k].existing].status = tools[cat[k].existing].status
              /\ tools'[cat[k].existing].ping_ms = tools[cat[k].existing].ping_ms
              /\ tools'[cat[k].existing].error = tools[cat[k].existing].error
              /\ tools'[cat[k].existing].identifier = tools[cat[k].existing].identifier]_vars

\* what holds of C25: the update replaces the config columns and writes
\* status, ping_ms, error and identifier as the sync read them
C25_InPlaceUpdateWritesWhatItRead ==
    [][\A k \in CatTasks :
          UpdatesInPlace(k) =>
              /\ ReplacesConfig(k)
              /\ tools'[cat[k].existing].status = cat[k].ex.status
              /\ tools'[cat[k].existing].ping_ms = cat[k].ex.ping_ms
              /\ tools'[cat[k].existing].error = cat[k].ex.error
              /\ tools'[cat[k].existing].identifier = cat[k].ex.identifier]_vars

\* task u performs, in this step, a store operation (set_tool_status), a
\* spawn or a kill
DoesIo(u) ==
    /\ sup[u].pc \in {"st_starting", "st_spawn", "st_healthy",
                       "sp_nohandle", "sp_kill", "sp_set"}
    /\ sup'[u] # sup[u]

\* C26: no task holds the processes lock while it performs a store
\* operation, a spawn or a kill: the lock is taken around the map access
\* and released before the I/O call.
C26_NoLockAcrossIo ==
    [][\A u \in SupTasks : DoesIo(u) => procLock # u]_vars

\* what holds of C26: stop_tool performs its store operations and the kill
\* without the processes lock
C26_StopHoldsNoLockAcrossIo ==
    [][\A u \in SupTasks :
          (DoesIo(u) /\ sup[u].pc \in {"sp_nohandle", "sp_kill", "sp_set"})
              => procLock # u]_vars

\* the exit monitor of child c has been launched
MonitorLaunched(c) == mon[c].pc # "none"

\* a start_tool that spawned child c has yet to write healthy or to emit
\* 'process started'
StartUnfinished(c) ==
    \E u \in SupTasks : sup[u].child = c /\ sup[u].pc \in {"st_healthy", "st_emit"}

\* the monitor of a child runs only once start_tool has written healthy and
\* emitted 'process started' for it
C27_MonitorAfterStarted ==
    \A c \in ChildIds : MonitorLaunched(c) => ~StartUnfinished(c)

\* starting is written while the call has no child and the tool no handle,
\* healthy is written with the handle of the spawned child in the process
\* map, 'process started' is pushed while the monitor is not yet launched,
\* and the monitor emits and writes only for a finished start
C27_StartOrder ==
    /\ \A u \in SupTasks :
        /\ (sup[u].pc = "st_starting" /\ sup'[u].pc = "st_spawn")
               => /\ sup[u].child = 0
                  /\ ~ContainsKey(processes, sup[u].tool)
                  /\ tools'[sup[u].tool].status = "starting"
        /\ (sup[u].pc = "st_healthy" /\ sup'[u].pc = "st_emit")
               => /\ processes[sup[u].tool] = sup[u].child
                  /\ sup[u].child # 0
                  /\ tools'[sup[u].tool].status = "healthy"
        /\ (sup[u].pc = "st_emit" /\ sup'[u].pc = "st_monitor")
               => /\ ~MonitorLaunched(sup[u].child)
                  /\ logs'[sup[u].tool][Len(logs'[sup[u].tool])].message =
                         "process started"
        /\ (sup[u].pc = "st_monitor" /\ sup'[u].pc = "idle")
               => /\ ~MonitorLaunched(sup[u].child)
                  /\ MonitorLaunched(sup[u].child)'
    /\ \A c \in ChildIds :
          (mon[c].pc \in {"m_emit", "m_set"} /\ mon'[c].pc # mon[c].pc)
              => ~StartUnfinished(c)

\* C27: a successful start_tool writes starting before the spawn, healthy
\* after the handle is recorded, and emits 'process started' before it
\* launches the exit monitor, so the monitor's 'process exited with code N'
\* and its stopped/crashed write come after 'process started' and after the
\* healthy write of the same run.
C27_StartStepsInOrder ==
    []C27_MonitorAfterStarted /\ [][C27_StartOrder]_vars

\* a started child has exited and its monitor has emitted the exit and
\* written the status
C27_Witness ==
    \E c \in ChildIds, u \in SupTasks :
        /\ sup[u].child = c /\ sup[u].result = "started"
        /\ mon[c].pc \in {"m_remove", "done"}
        /\ tools[children[c].tool].status \in {"stopped", "crashed"}
        /\ logs[children[c].tool][Len(logs[children[c].tool])].message =
               ExitMessage(mon[c].code)

\* the entries of stream s in a sequence are lines of s in the order the
\* child wrote them, none overtaking an earlier one
InWriteOrder(seq, s) ==
    LET part == OfStream(seq, s) IN
    \A i, j \in 1..Len(part) : i < j => part[i].message.line < part[j].message.line

\* C28: the lines of each of stdout and stderr are pushed into the ring and
\* sent on the channel in the order the child wrote them on that stream;
\* nothing is said of the order between the streams and the events.
C28_StreamOrderKept ==
    \A s \in Streams :
        /\ OfStream(emitted[StreamTool], s) =
               [i \in 1..Len(OfStream(emitted[StreamTool], s)) |->
                   [stream |-> s, message |-> StreamLines(s)[i]]]
        /\ InWriteOrder(logs[StreamTool], s)
        /\ InWriteOrder(channel[StreamTool], s)

\* both streams were read to the end, the stderr lines got in between the
\* stdout lines, and lines of both were broadcast to a subscriber
C28_Witness ==
    /\ \A s \in Streams : Len(OfStream(emitted[StreamTool], s)) = MaxLines
    /\ \E i, j, k \in 1..Len(emitted[StreamTool]) :
          /\ i < j /\ j < k
          /\ emitted[StreamTool][i].stream = "stdout"
          /\ emitted[StreamTool][j].stream = "stderr"
          /\ emitted[StreamTool][k].stream = "stdout"
    /\ receivers[StreamClient].state = "open"
    /\ Len(OfStream(channel[StreamTool], "stdout")) = MaxLines
    /\ OfStream(channel[StreamTool], "stderr") # <<>>

\* an emitter that has pushed its entry can always go on to send it
C29_SendNeverWaits ==
    \A e \in EmitTasks : emitters[e].pc = "send" => ENABLED EmitSend(e)

\* the entry is appended to the ring whoever listens; the send leaves every
\* receiver as it is, stores the entry when a receiver is open on the tool
\* and nothing otherwise, and ends emit_log; a receiver that finds more than
\* the capacity outstanding skips to the oldest retained entry
C29_EmitEffects ==
    /\ \A e \in EmitTasks :
          /\ (emitters[e].pc = "idle" /\ emitters'[e].pc = "send") =>
                 LET ring == logs'[emitters'[e].tool] IN
                 /\ ring # <<>>
                 /\ ring[Len(ring)] = emitters'[e].entry
                 /\ channel' = channel /\ receivers' = receivers
          /\ (emitters[e].pc = "send" /\ emitters'[e].pc = "idle") =>
                 LET t == emitters[e].tool IN
                 /\ receivers' = receivers
                 /\ logs' = logs
                 /\ channel'[t] = IF variant = "backend" /\ OpenOn(t) # {}
                                   THEN Append(channel[t], emitters[e].entry)
                                   ELSE channel[t]
    /\ \A r \in LogClients :
          (receivers'[r].lagged /\ ~receivers[r].lagged) =>
              /\ receivers'[r].got = receivers[r].got
              /\ receivers'[r].next =
                     Len(channel[receivers[r].tool]) - BroadcastCapacity
              /\ receivers'[r].next > receivers[r].next

\* C29: emit_log never waits for subscribers: after the push into the ring,
\* which happens in every case, the send goes through at once with no
\* subscriber (ignored), with subscribers, and with subscribers that have
\* more than the capacity outstanding, who then lose their oldest entries.
C29_EmitNeverBlocks ==
    []C29_SendNeverWaits /\ [][C29_EmitEffects]_vars

\* a subscriber lagged: entries were sent past the capacity while it had
\* taken none, and it lost the oldest of them
C29_Witness ==
    \E r \in LogClients :
        /\ receivers[r].state = "open"
        /\ receivers[r].lagged
        /\ receivers[r].from < receivers[r].next
        /\ Len(channel[receivers[r].tool]) - receivers[r].from > BroadcastCapacity
        /\ Len(logs[receivers[r].tool]) = LogBufferSize

-----------------------------------------------------------------------------
(* Properties of a failing reconciliation, checked under Spec *)

\* a step of a sync in which reconciling an entry fails: a store call for
\* the next entry, or the write of the entry in hand
EntryFails(k) ==
    /\ cat[k].op = "sync"
    /\ cat'[k] # cat[k]
    /\ \/ /\ cat[k].pc = "acp_next"
          /\ cat[k].todo # {}
          /\ cat'[k].pc # "acp_existing"
       \/ /\ cat[k].pc = "acp_write"
          /\ ~UpsertWrite(variant, tools, cat[k].found,
                          TaskRecord(variant, cat[k])).ok

C30_FailureStopsWithoutRollback ==
    \A k \in CatTasks :
        /\ EntryFails(k) =>
               /\ cat'[k].pc = "sync_fail"
               /\ cat'[k].todo = cat[k].todo
               /\ cat'[k].seen = cat[k].seen
               /\ tools' = tools
        /\ cat[k].pc = "sync_fail" /\ cat'[k] # cat[k] =>
               /\ cat'[k].pc = "idle"
               /\ cat'[k].result = "error"
               /\ tools' = tools
               /\ sources'[cat[k].source].status = "error"

\* C30: when reconciling an entry of a sync fails, the rows written for
\* the earlier entries stay as written, no remaining entry is applied, and
\* the sync returns an error with the source in status error.
C30_FailedSyncKeepsEarlierEntries == [][C30_FailureStopsWithoutRollback]_vars

\* a sync has failed at its second entry: the row of the first entry is in
\* the table, the second entry has no row
C30_Witness ==
    \E k \in CatTasks :
        /\ cat[k].op = "sync"
        /\ cat[k].pc = "sync_fail"
        /\ cat[k].todo # {}
        /\ \E n \in cat[k].seen : RowsNamed(tools, cat[k].source, n) # {}
        /\ \A e \in cat[k].todo : RowsNamed(tools, cat[k].source, e.name) = {}

-----------------------------------------------------------------------------
(* Liveness of the supervisor's locks, checked under SupFairSpec *)

\* C31: every task waiting for the processes lock or for a child's mutex
\* gets it: a start at its write lock, a stop at its read of the map and at
\* the child mutex, the monitor of an ended child at the child mutex and,
\* holding it, at the processes write lock.
C31_EveryLockIsGranted ==
    /\ \A u \in SupTasks :
          /\ (sup[u].pc = "st_begin") ~> (sup[u].pc # "st_begin")
          /\ (sup[u].pc = "sp_read") ~> (sup[u].pc # "sp_read")
          /\ (sup[u].pc = "sp_kill") ~> (sup[u].pc # "sp_kill")
    /\ \A c \in ChildIds :
          /\ (mon[c].pc = "polling" /\ children[c].state # "running")
                 ~> (mon[c].pc # "polling")
          /\ (mon[c].pc = "m_remove") ~> (mon[c].pc = "done")

\* the monitor holds the mutex of a child and is about to take the
\* processes write lock, while a stop that read the child's handle from the
\* map waits for the mutex
C31_Witness ==
    \E c \in ChildIds, u \in SupTasks :
        /\ mon[c].pc = "m_remove"
        /\ childLock[c] = MonTask
        /\ sup[u].pc = "sp_kill"
        /\ sup[u].child = c

-----------------------------------------------------------------------------
(* Persisted status against the process map at rest, checked under SupSpec *)

\* no start or stop is in flight and no monitor is between observing an exit
\* and removing the handle
SupQuiescent ==
    /\ \A u \in SupTasks : sup[u].pc = "idle"
    /\ \A c \in ChildIds : mon[c].pc \in {"none", "polling", "done"}

\* the tool has a handle in the process map whose child is running
HasLiveChild(t) ==
    /\ ContainsKey(processes, t)
    /\ children[processes[t]].state = "running"

\* C32: at rest, a tool whose persisted status is stopped has no running
\* child in the process map.
C32_StoppedHasNoLiveChild ==
    SupQuiescent =>
        \A t \in Rows(tools) : tools[t].status = "stopped" => ~HasLiveChild(t)

\* what holds of the code: a stop that found a handle and killed its running
\* child returns with that child no longer running
C32_StopOfRunningChildEndsIt ==
    \A u \in SupTasks :
        sup[u].pc = "idle" /\ sup[u].result = "stopped_running" =>
            children[sup[u].child].state = "reaped"

\* no request of the catalog is in flight either
AllQuiescent ==
    /\ SupQuiescent
    /\ \A k \in CatTasks : cat[k].pc = "idle"

\* C33: at rest, a tool whose persisted status is starting or healthy has a
\* handle in the process map.
C33_StartingOrHealthyHasHandle ==
    AllQuiescent =>
        \A t \in Rows(tools) :
            tools[t].status \in {"starting", "healthy"} => ContainsKey(processes, t)

\* what holds of the code: start_tool writes healthy only with the handle of
\* the child it spawned in the process map
C33_HealthyIsWrittenWithHandle ==
    [][\A u \in SupTasks :
          sup[u].pc = "st_healthy" /\ sup'[u].pc = "st_emit" =>
              /\ tools'[sup[u].tool].status = "healthy"
              /\ processes[sup[u].tool] = sup[u].child]_vars

-----------------------------------------------------------------------------
(* Failed starts, checked under StoreFailSpec *)

StartErrors == {"already_running", "missing_command", "spawn_failed", "store_failed"}

\* start_tool of task u has returned an error
StartFailed(u) == sup[u].pc = "idle" /\ sup[u].result \in StartErrors

\* C34: when start_tool has returned an error, the process map holds no
\* handle inserted by that call.
C34_FailedStartLeavesNoHandle ==
    \A u \in SupTasks :
        StartFailed(u) =>
            sup[u].child = 0 \/ processes[sup[u].tool] # sup[u].child

\* what holds of the code: a start that fails before or at the spawn (handle
\* present, no command, status write of starting, spawn) leaves the process
\* map as it was
C34_FailureUpToSpawnLeavesMap ==
    [][\A u \in SupTasks :
          /\ sup[u].pc \in {"st_begin", "st_starting", "st_spawn"}
          /\ sup'[u].pc = "idle"
          => /\ sup'[u].result \in StartErrors
             /\ processes' = processes]_vars

-----------------------------------------------------------------------------
(* The exit monitor after the child has ended, checked under SupFairSpec *)

\* the child has ended: it exited by itself or stop_tool killed it
Terminated(c) == children[c].state \in {"exited", "reaped"}

\* the steps of the monitor of child c once it has seen the exit status: it
\* emits the exit message, and when it finishes the handle of the tool is
\* gone from the process map and the status is stopped or crashed
C35_MonitorSteps ==
    \A c \in ChildIds :
        /\ mon[c].pc = "m_emit" /\ mon'[c].pc # "m_emit" =>
               /\ mon'[c].pc = "m_set"
               /\ logs'[children[c].tool] # <<>>
               /\ logs'[children[c].tool][Len(logs'[children[c].tool])] =
                      [stream |-> "event", message |-> ExitMessage(mon[c].code)]
        /\ mon[c].pc # "done" /\ mon'[c].pc = "done" =>
               /\ mon[c].pc = "m_remove"
               /\ ~ContainsKey(processes', children[c].tool)
               /\ tools'[children[c].tool].status \in {"stopped", "crashed"}

\* a finished monitor leaves no handle of its child behind
C35_DoneMonitorLeftNoHandle ==
    \A c \in ChildIds :
        mon[c].pc = "done" => processes[children[c].tool] # c

-----------------------------------------------------------------------------
(* The frame of apply-pending and resolve-conflict, checked under PendSpec *)

\* a step of an apply-pending or resolve "update" request of task k, or the
\* one step of its resolve "keep"
ApplyOrResolveStep(k) ==
    /\ cat'[k] # cat[k]
    /\ \/ cat[k].pc # "idle" /\ cat[k].op \in {"apply", "resolve"}
       \/ cat[k].pc = "idle" /\ cat'[k].op = "keep"

\* C36: apply-pending and resolve-conflict for a tool change no other row
\* and leave the rows of the table the same in number.
C36_OnlyTheToolsRowChanges ==
    [][\A k \in CatTasks :
          ApplyOrResolveStep(k) =>
              /\ \A o \in RowIds \ {cat'[k].tool} : tools'[o] = tools[o]
              /\ Rows(tools') = Rows(tools)]_vars

\* in the Tauri table an apply-pending has promoted the pending config of a
\* tool without identifier whose source has another tool without identifier
C36_Witness ==
    \E k \in CatTasks :
        /\ variant = "tauri"
        /\ cat[k].op \in {"apply", "resolve"}
        /\ cat[k].pc = "idle"
        /\ cat[k].result = "ok"
        /\ cat[k].tool \in Rows(tools)
        /\ tools[cat[k].tool].identifier = None
        /\ tools[cat[k].tool].pending_config_json = None
        /\ \E o \in Rows(tools) \ {cat[k].tool} :
              /\ tools[o].source_id = tools[cat[k].tool].source_id
              /\ tools[o].identifier = None

-----------------------------------------------------------------------------
(* Order of delivery against order in the ring, checked under LogSpec *)

\* the entries of seq occur in that order (not necessarily adjacent) in whole
RECURSIVE IsSubsequence(_, _)
IsSubsequence(seq, whole) ==
    IF seq = <<>> THEN TRUE
    ELSE IF whole = <<>> THEN FALSE
    ELSE IF Head(seq) = Head(whole) THEN IsSubsequence(Tail(seq), Tail(whole))
    ELSE IsSubsequence(seq, Tail(whole))

\* C37: a subscriber that never lagged has received the tool's entries in
\* the order in which they were pushed into the tool's ring.
C37_ReceivedInRingOrder ==
    \A r \in LogClients :
        receivers[r].state = "open" /\ ~receivers[r].lagged =>
            IsSubsequence(receivers[r].got, emitted[receivers[r].tool])

\* what holds of the code: such a subscriber has received the entries in the
\* order in which they were sent on the channel
C37_ReceivedInSendOrder ==
    \A r \in LogClients :
        receivers[r].state = "open" /\ ~receivers[r].lagged =>
            IsSubsequence(receivers[r].got, channel[receivers[r].tool])

-----------------------------------------------------------------------------
(* Orphaned cloud tools when a sync completes, checked under Spec *)

\* sync_cloud_subscriptions of task k returns Ok in this step
CloudSyncCompletes(k) ==
    /\ cat[k].op = "cloud"
    /\ cat[k].pc = "cs_sweep"
    /\ cat'[k].pc = "idle"
    /\ cat'[k].result = "ok"

\* C38: when a cloud subscription sync completes, every orphaned tool of the
\* cloud source has an identifier that was absent from the sync's list.
C38_OrphanedOnlyIfAbsent ==
    [][\A k \in CatTasks :
          CloudSyncCompletes(k) =>
              \A t \in Rows(tools') :
                  /\ tools'[t].source_id = cat[k].source
                  /\ tools'[t].status = "orphaned"
                  => /\ IsSome(tools'[t].identifier)
                     /\ Unwrap(tools'[t].identifier) \notin cat[k].seen]_vars

\* what holds of the code: a tool becomes orphaned only in the sweep of a
\* sync whose list does not name its identifier
C38_SweepOrphansOnlyAbsent ==
    [][\A t \in Rows(tools) :
          tools[t].status # "orphaned" /\ tools'[t].status = "orphaned" =>
              \E k \in CatTasks :
                  /\ cat[k].pc = "cs_sweep"
                  /\ tools[t].source_id = cat[k].source
                  /\ IsSome(tools[t].identifier)
                  /\ Unwrap(tools[t].identifier) \notin cat[k].seen]_vars

-----------------------------------------------------------------------------
(* last_synced_at across sync attempts, checked under Spec *)

\* C39: a last_synced_at that a successful sync has set is not cleared by
\* a later sync attempt, neither while it runs nor when it fails.
C39_LastSyncedAtIsKept ==
    [][\A src \in SourceIds :
          sources[src] # NoSource /\ IsSome(sources[src].last_synced_at) =>
              IsSome(sources'[src].last_synced_at)]_vars

\* what holds of the code: last_synced_at is cleared only by the status
\* writes of a sync, those of syncing and of error
C39_ClearedOnlyBySyncStatusWrite ==
    [][\A src \in SourceIds :
          /\ sources[src] # NoSource
          /\ IsSome(sources[src].last_synced_at)
          /\ ~IsSome(sources'[src].last_synced_at)
          => /\ sources'[src].status \in {"syncing", "error"}
             /\ \E k \in CatTasks :
                   /\ cat[k].op = "sync"
                   /\ cat[k].source = src
                   /\ cat[k].pc \in {"sync_set", "sync_fail"}]_vars

-----------------------------------------------------------------------------
(* Log-stream tasks of the bridge, checked under BridgeSpec *)

\* the stream_logs tasks of tool t that are running
RunningStreams(t) ==
    {i \in DOMAIN bridge.tasks :
        bridge.tasks[i].tool = t /\ bridge.tasks[i].state = "running"}

\* start_mcp_log_stream(t) returns Ok in this step
StartStreamReturnsOk(t) ==
    /\ bridge'.calls = bridge.calls + 1
    /\ bridge'.last = [op |-> "start", tool |-> t, result |-> "ok"]

\* C40: when start_mcp_log_stream(tool_id) returns Ok a log-stream task for
\* tool_id is running, also when an earlier task for it has ended by itself.
C40_StartedStreamIsRunning ==
    [][\A t \in BridgeTools :
          StartStreamReturnsOk(t) =>
              \E i \in DOMAIN bridge'.tasks :
                  /\ bridge'.tasks[i].tool = t
                  /\ bridge'.tasks[i].state = "running"]_vars

\* what holds of the code: no tool has two running stream tasks that were
\* not aborted, and the map's entry of a tool is a task of that tool
C40_AtMostOneStreamPerTool ==
    \A t \in BridgeTools :
        /\ Cardinality(RunningStreams(t)) <= 1
        /\ bridge.streams[t] # 0 =>
               /\ bridge.streams[t] \in DOMAIN bridge.tasks
               /\ bridge.tasks[bridge.streams[t]].tool = t
               /\ RunningStreams(t) \subseteq {bridge.streams[t]}

====
